---- MODULE Spec2Model ----
(***************************************************************************)
(* A model of the GAS Executor webhook (the combined deployment file under *)
(* src/, "Code.js" in Japanese script): the API key store                  *)
(* kept in the script properties, the audit log kept in the "Log" sheet,   *)
(* the script executor, and doPost, which runs one request through         *)
(* parse -> validate -> updateUsage -> execute -> log -> respond.          *)
(***************************************************************************)
EXTENDS Integers, Sequences, FiniteSets, TLC

(***************************************************************************)
(* Bounds of the model.                                                    *)
(***************************************************************************)
\* how many secrets Utilities.getUuid() hands out in one run
MaxUuid == 2
\* the clock (milliseconds, abstracted) stops advancing here
MaxTime == 1
\* how many requests doPost serves in one run
MaxRequests == 1
\* how often updateUsage is called on one key when the key store is used alone
MaxUsage == 2
\* CONFIG.LIMITS.MAX_LOG_ENTRIES (10000 in CONFIG.LIMITS), scaled down so
\* that the trim of Logger.trimLogs happens within a run
MAX_LOG_ENTRIES == 4
\* requests that arrive while the web app serves two at a time
MaxArrivals == 3

(***************************************************************************)
(* CONFIG.  The message texts are Japanese in the source; the model names  *)
(* each text by the name of its CONFIG key.                                *)
(***************************************************************************)
MAX_SCRIPT_LENGTH == 100000
LOG_COLUMNS == <<"title", "script", "result", "status", "time", "identifier">>
STATUS_SUCCESS == "success"
STATUS_FAIL == "fail"
NO_POST_DATA == "No post data received"
INVALID_API_KEY == "INVALID_API_KEY"
SCRIPT_EXECUTION_ERROR == "SCRIPT_EXECUTION_ERROR"
GENERAL_ERROR == "GENERAL_ERROR"

(***************************************************************************)
(* JavaScript values.  A value is a tuple whose first element is its kind; *)
(* "undefined", "null" and "empty" (the empty string) are the falsy kinds  *)
(* that occur, "string" a non-empty string, "number" a non-zero number and *)
(* "object" an object; "uuid" is the text of a UUID and "script" the text   *)
(* of a script, kept apart from other strings by what they carry.          *)
(***************************************************************************)
Undefined == <<"undefined">>
Null == <<"null">>
EmptyStr == <<"empty">>
Str(x) == <<"string", x>>
Num(x) == <<"number", x>>
Obj(x) == <<"object", x>>
\* a string of n characters, n > 0
Text(n) == <<"text", n>>
\* an object that is no string and has a length of n: an array of n elements
\* or {"length": n}
HasLength(n) == <<"haslength", n>>

\* !v
Falsy(v) == v[1] \in {"undefined", "null", "empty"}
\* typeof v === 'string': a UUID text and a script text are strings too
IsString(v) == v[1] \in {"string", "empty", "uuid", "script", "text"}
\* typeof v === 'object'
IsObject(v) == v[1] \in {"object", "null", "haslength"}

(***************************************************************************)
(* The script properties hold one text per key.  JSON.stringify of a key   *)
(* record gives a text that JSON.parse turns back into the record; any     *)
(* other text makes JSON.parse throw.  new Date().toISOString() is the     *)
(* text of the clock's reading.                                            *)
(***************************************************************************)
JsonStringify(data) == <<"json", data>>
JsonParses(text) == text[1] = "json"
JsonParse(text) == text[2]
IsoString(t) == <<"iso", t>>

\* the identifiers the menu is used with, and the secrets getUuid can return
Ids == {Str("alice"), Str("bob")}
Uuid(n) == <<"uuid", n>>
Uuids == {Uuid(n) : n \in 1..MaxUuid}

VARIABLES
  props,      \* scriptProperties: key -> text, Null where the key is not set
  nextUuid,   \* Utilities.getUuid() returns Uuid(nextUuid) next
  now,        \* the clock
  ret,        \* what the last ApiKeyManager call made from the menu returned
  issued,     \* per identifier, the secret its last successful create
              \* returned, Null once the key is deleted
  sheet,      \* the Log sheet
  served,     \* how many requests have arrived
  pc,         \* per request slot, where doPost stands
  ev,         \* the event e doPost was called with
  request,    \* request.data
  validation, \* what validate returned
  execution,  \* what execute returned
  response,   \* what doPost returned
  invoked,    \* how often the function built from the script was called
  logged,     \* the rows the request wrote to the sheet
  trace,      \* the calls doPost has made so far, in order
  keyData,    \* the text updateUsage read with getProperty
  calls       \* per identifier, how many updateUsage calls wrote its record
              \* since the record was created

keyVars == <<props, nextUuid, ret, issued, calls>>
reqVars == <<pc, ev, request, validation, execution, response, invoked, logged, trace,
             keyData>>
vars == <<props, nextUuid, now, ret, issued, sheet, served, pc, ev, request,
          validation, execution, response, invoked, logged, trace, keyData,
          calls>>

getKeys(store) == {k \in DOMAIN store : store[k] # Null}

(***************************************************************************)
(* ApiKeyManager.validate: the records whose apiKey equals the argument;   *)
(* the scan returns at the first one it meets, in the order getKeys gives, *)
(* so each match is a possible result.  A text that does not parse is      *)
(* skipped by the catch.                                                   *)
(***************************************************************************)
Invalid == [valid |-> FALSE, identifier |-> Null]

\* the loop comparing value.identifier instead of value.apiKey (a fault)
validateMatchesByIdentifier(store, apiKey) ==
  {k \in getKeys(store) : JsonParses(store[k]) /\ JsonParse(store[k]).identifier = apiKey}

validateMatches(store, apiKey) ==
  {k \in getKeys(store) : JsonParses(store[k]) /\ JsonParse(store[k]).apiKey = apiKey}

\* the scan of validate ending at the first text that does not parse, in a
\* scan order that meets it first (a fault)
validateStopsAtUnparsed(store, apiKey) ==
  IF Falsy(apiKey) \/ ~IsString(apiKey) THEN {Invalid}
  ELSE LET m == validateMatches(store, apiKey)
           stopped == IF \E k \in getKeys(store) : ~JsonParses(store[k])
                      THEN {Invalid} ELSE {}
       IN  IF m = {} THEN {Invalid}
           ELSE stopped \cup
                {[valid |-> TRUE, identifier |-> JsonParse(store[k]).identifier] : k \in m}

validate(store, apiKey) ==
  IF Falsy(apiKey) \/ ~IsString(apiKey) THEN {Invalid}
  ELSE LET m == validateMatches(store, apiKey)
       IN  IF m = {} THEN {Invalid}
           ELSE {[valid |-> TRUE, identifier |-> JsonParse(store[k]).identifier] : k \in m}

(***************************************************************************)
(* ApiKeyManager.create: [threw, value, store].                            *)
(***************************************************************************)
newKeyData(identifier, apiKey, t) ==
  [apiKey |-> apiKey, identifier |-> identifier, createdAt |-> IsoString(t),
   lastUsed |-> Null, usageCount |-> 0]

\* create without the check for an existing identifier (a fault)
createOverwrites(store, identifier, apiKey, t) ==
  IF Falsy(identifier) \/ ~IsString(identifier)
  THEN [threw |-> TRUE, value |-> Str("Identifier is required and must be a string"),
        store |-> store]
  ELSE [threw |-> FALSE, value |-> apiKey,
        store |-> [store EXCEPT ![identifier] =
                     JsonStringify(newKeyData(identifier, apiKey, t))]]

create(store, identifier, apiKey, t) ==
  IF Falsy(identifier) \/ ~IsString(identifier)
  THEN [threw |-> TRUE, value |-> Str("Identifier is required and must be a string"),
        store |-> store]
  ELSE IF ~Falsy(store[identifier])
  THEN [threw |-> TRUE, value |-> Str("Identifier already exists"), store |-> store]
  ELSE [threw |-> FALSE, value |-> apiKey,
        store |-> [store EXCEPT ![identifier] =
                     JsonStringify(newKeyData(identifier, apiKey, t))]]

(***************************************************************************)
(* ApiKeyManager.delete ("delete" is spelled deleteKey here): [value,      *)
(* store].                                                                 *)
(***************************************************************************)
\* delete without the call of deleteProperty (a fault)
deleteKeyKeepsRecord(store, identifier) ==
  IF ~Falsy(store[identifier])
  THEN [value |-> TRUE, store |-> store]
  ELSE [value |-> FALSE, store |-> store]

deleteKey(store, identifier) ==
  IF ~Falsy(store[identifier])
  THEN [value |-> TRUE, store |-> [store EXCEPT ![identifier] = Null]]
  ELSE [value |-> FALSE, store |-> store]

(***************************************************************************)
(* ApiKeyManager.updateUsage: a read of the record, then a write of the    *)
(* record with lastUsed set and usageCount one higher.  Nothing happens    *)
(* when the key is not set or its text does not parse.                     *)
(***************************************************************************)
\* updateUsage that leaves lastUsed as it was (a fault)
updateUsageKeepsLastUsed(store, identifier, t) ==
  IF identifier \notin DOMAIN store \/ Falsy(store[identifier]) THEN store
  ELSE IF ~JsonParses(store[identifier]) THEN store
  ELSE LET data == JsonParse(store[identifier])
       IN  [store EXCEPT ![identifier] =
              JsonStringify([data EXCEPT !.usageCount = data.usageCount + 1])]

\* updateUsage that sets lastUsed and leaves the count (a fault)
updateUsageKeepsCount(store, identifier, t) ==
  IF identifier \notin DOMAIN store \/ Falsy(store[identifier]) THEN store
  ELSE IF ~JsonParses(store[identifier]) THEN store
  ELSE LET data == JsonParse(store[identifier])
       IN  [store EXCEPT ![identifier] =
              JsonStringify([data EXCEPT !.lastUsed = IsoString(t)])]

\* updateUsage that counts every call twice (a fault)
updateUsageAddsTwo(store, identifier, t) ==
  IF identifier \notin DOMAIN store \/ Falsy(store[identifier]) THEN store
  ELSE IF ~JsonParses(store[identifier]) THEN store
  ELSE LET data == JsonParse(store[identifier])
       IN  [store EXCEPT ![identifier] =
              JsonStringify([data EXCEPT !.lastUsed = IsoString(t),
                                         !.usageCount = data.usageCount + 2])]

updateUsage(store, identifier, t) ==
  IF identifier \notin DOMAIN store \/ Falsy(store[identifier]) THEN store
  ELSE IF ~JsonParses(store[identifier]) THEN store
  ELSE LET data == JsonParse(store[identifier])
       IN  [store EXCEPT ![identifier] =
              JsonStringify([data EXCEPT !.lastUsed = IsoString(t),
                                         !.usageCount = data.usageCount + 1])]

(***************************************************************************)
(* Scripts.  A script text is known by its length and by what building     *)
(* and calling it does: <<"syntax">> (new Function throws a SyntaxError),  *)
(* <<"return", v>> or <<"throw", x>>.  A thrown Error is                   *)
(* <<"error", class, name, message>>; anything may be thrown.              *)
(***************************************************************************)
Script(len, out) == <<"script", [len |-> len, out |-> out]>>
Err(class, name, message) == <<"error", class, name, message>>

Circular == Obj("circular")
BigInt == <<"bigint", 10>>
\* an object whose toJSON() throws null
ToJsonThrowsNull == Obj("toJSON throws null")
ReturnedValues == {Str("hi"), Obj("plain"), Circular, BigInt, Undefined, Null}
ThrownValues == {Err("ReferenceError", "ReferenceError", "x is not defined"),
                 Err("TypeError", "TypeError", "x is not a function"),
                 Err("Error", "Error", "boom"),
                 Str("oops"), Null}
\* <<"eval", v>> is a script that calls eval( and returns v
Outcomes == {<<"syntax">>} \cup {<<"return", v>> : v \in ReturnedValues}
              \cup {<<"throw", x>> : x \in ThrownValues}
              \cup {<<"eval", Str("hi")>>}

\* the text matches a pattern of the dangerousPatterns list that the modular
\* ScriptExecutor tests and this validateScript does not
MatchesDenylist(script) == script[1] = "script" /\ script[2].out[1] = "eval"

\* JSON.stringify(v) throws for an object with a cycle and for a BigInt, and
\* lets through what a toJSON() of v throws
Serializable(v) == v \notin {Circular, BigInt, ToJsonThrowsNull}
\* what JSON.stringify(v) throws then
StringifyThrown(v) ==
  IF v = ToJsonThrowsNull THEN Null
  ELSE Err("TypeError", "TypeError", "Cannot convert to JSON")

(***************************************************************************)
(* ScriptExecutor.validateScript: the Error it throws, Null when it passes.*)
(***************************************************************************)
\* validateScript comparing the length with >= (a fault)
validateScriptOffByOne(script) ==
  IF Falsy(script) \/ ~IsString(script)
  THEN Err("Error", "Error", "Script must be a non-empty string")
  ELSE IF script[2].len >= MAX_SCRIPT_LENGTH
  THEN Err("Error", "Error", "Script exceeds maximum length")
  ELSE Null

validateScript(script) ==
  IF Falsy(script) \/ ~IsString(script)
  THEN Err("Error", "Error", "Script must be a non-empty string")
  ELSE IF script[2].len > MAX_SCRIPT_LENGTH
  THEN Err("Error", "Error", "Script exceeds maximum length")
  ELSE Null

(***************************************************************************)
(* ScriptExecutor.formatError: [threw, text].  Reading a property of null  *)
(* or undefined throws a TypeError; a thrown value that is no Error has    *)
(* neither name nor message.                                               *)
(***************************************************************************)
Formatted(kind, message) == <<"string", kind, message>>

formatError(error) ==
  IF error[1] \in {"null", "undefined"}
  THEN [threw |-> TRUE,
        text |-> Err("TypeError", "TypeError", "Cannot read properties of null")]
  ELSE IF error[1] # "error"
  THEN [threw |-> FALSE, text |-> Formatted("Error", "undefined")]
  ELSE IF error[2] = "SyntaxError"
  THEN [threw |-> FALSE, text |-> Formatted("Syntax Error", error[4])]
  ELSE IF error[2] = "ReferenceError"
  THEN [threw |-> FALSE, text |-> Formatted("Reference Error", error[4])]
  ELSE IF error[2] = "TypeError"
  THEN [threw |-> FALSE, text |-> Formatted("Type Error", error[4])]
  ELSE [threw |-> FALSE,
        text |-> Formatted(IF error[3] = "" THEN "Error" ELSE error[3], error[4])]

(***************************************************************************)
(* ScriptExecutor.execute, the call taking d on the clock:                 *)
(* [threw, error, invoked, value].  invoked says whether the function      *)
(* built from the script was called.  The catch clause formats what was    *)
(* thrown; what formatError throws leaves execute.                         *)
(***************************************************************************)
\* the catch clause returning what was thrown as it is (a fault)
FailureRawError(thrown, called, d) ==
  [threw |-> FALSE, error |-> Null, invoked |-> called,
   value |-> [success |-> FALSE, result |-> Null, error |-> thrown,
              executionTime |-> d]]

Failure(thrown, called, d) ==
  LET f == formatError(thrown)
  IN  IF f.threw
      THEN [threw |-> TRUE, error |-> f.text, invoked |-> called, value |-> Null]
      ELSE [threw |-> FALSE, error |-> Null, invoked |-> called,
            value |-> [success |-> FALSE, result |-> Null, error |-> f.text,
                       executionTime |-> d]]

execute(script, d) ==
  IF validateScript(script) # Null THEN Failure(validateScript(script), FALSE, d)
  ELSE LET out == script[2].out
       IN  IF out[1] = "syntax"
           THEN Failure(Err("SyntaxError", "SyntaxError", "Unexpected token"), FALSE, d)
           ELSE IF out[1] = "throw" THEN Failure(out[2], TRUE, d)
           ELSE [threw |-> FALSE, error |-> Null, invoked |-> TRUE,
                 value |-> [success |-> TRUE, result |-> out[2], error |-> Null,
                            executionTime |-> d]]

(***************************************************************************)
(* ResponseBuilder.  Each builder ends in JSON.stringify(response), which  *)
(* throws when the response holds a value that has no JSON text:           *)
(* [threw, value].                                                         *)
(***************************************************************************)
ResponseSuccess(result, executionTime, t) ==
  IF ~Serializable(result)
  THEN [threw |-> TRUE, value |-> StringifyThrown(result)]
  ELSE [threw |-> FALSE,
        value |-> [success |-> TRUE, result |-> result, timestamp |-> IsoString(t),
                   executionTime |-> executionTime]]

\* error(error, statusCode) without details
ResponseError(error, statusCode, t) ==
  [success |-> FALSE, error |-> error, statusCode |-> statusCode,
   timestamp |-> IsoString(t)]

\* error(error, statusCode, {executionTime})
ResponseErrorTimed(error, statusCode, executionTime, t) ==
  [success |-> FALSE, error |-> error, statusCode |-> statusCode,
   timestamp |-> IsoString(t), executionTime |-> executionTime]

\* validationError(errors) and rateLimitExceeded(retryAfter): the shapes with
\* the codes 422 and 429, which doPost never calls
ResponseValidationError(errors, t) ==
  [success |-> FALSE, error |-> <<"Validation failed">>, statusCode |-> 422,
   timestamp |-> IsoString(t), validationErrors |-> errors]

ResponseRateLimitExceeded(retryAfter, t) ==
  [success |-> FALSE, error |-> <<"Rate limit exceeded">>, statusCode |-> 429,
   timestamp |-> IsoString(t), retryAfter |-> retryAfter]

\* unauthorized answering with the rate limit shape (a fault)
ResponseUnauthorizedRateLimited(t) == ResponseRateLimitExceeded(60, t)

ResponseUnauthorized(t) == ResponseError(<<INVALID_API_KEY>>, 401, t)

\* serverError passing no status code, so that error() takes its default (a fault)
ResponseServerErrorDefaultCode(message, t) == ResponseError(message, 400, t)

ResponseServerError(message, t) == ResponseError(message, 500, t)

\* doPost ended by an exception: the caller gets no envelope
Uncaught == [uncaught |-> TRUE]

\* catch (error) { return serverError(GENERAL_ERROR + ': ' + error.message) }:
\* reading the message of null or undefined throws out of the catch
doPostCatch(error, t) ==
  IF error \in {Null, Undefined} THEN Uncaught
  ELSE IF error[1] = "error" THEN ResponseServerError(<<GENERAL_ERROR, error[4]>>, t)
  ELSE ResponseServerError(<<GENERAL_ERROR, "undefined">>, t)

(***************************************************************************)
(* parseRequest.  The event e is [body, script, title, apiKey]: body is    *)
(* "none" (no postData or empty contents), "invalid" (JSON.parse throws),  *)
(* "null" (the JSON text null, whose properties cannot be read) or         *)
(* "object", and the three fields are what the parsed object holds.  An    *)
(* error text is the tuple of the parts that join(', ') puts together.     *)
(***************************************************************************)
MissingFields(data) ==
  (IF Falsy(data.script) THEN <<"Script is required">> ELSE <<>>)
  \o (IF Falsy(data.title) THEN <<"Title is required">> ELSE <<>>)
  \o (IF Falsy(data.apiKey) THEN <<"API key is required">> ELSE <<>>)

\* parseRequest without the check of data.title (a fault)
parseRequestNoTitleCheck(e) ==
  IF e.body = "none" THEN [success |-> FALSE, error |-> <<NO_POST_DATA>>]
  ELSE IF e.body \in {"invalid", "null"}
  THEN [success |-> FALSE, error |-> <<"Invalid JSON">>]
  ELSE LET data == [script |-> e.script, title |-> e.title, apiKey |-> e.apiKey]
       IN  IF Falsy(data.script) \/ Falsy(data.apiKey)
           THEN [success |-> FALSE, error |-> MissingFields(data)]
           ELSE [success |-> TRUE, data |-> data]

parseRequest(e) ==
  IF e.body = "none" THEN [success |-> FALSE, error |-> <<NO_POST_DATA>>]
  ELSE IF e.body \in {"invalid", "null"}
  THEN [success |-> FALSE, error |-> <<"Invalid JSON">>]
  ELSE LET data == [script |-> e.script, title |-> e.title, apiKey |-> e.apiKey]
       IN  IF Len(MissingFields(data)) > 0
           THEN [success |-> FALSE, error |-> MissingFields(data)]
           ELSE [success |-> TRUE, data |-> data]

(***************************************************************************)
(* The Log sheet: whether it exists, and its rows from row 1 down to the   *)
(* last row that holds something.  A row is the header, an entry or blank. *)
(***************************************************************************)
Header == [kind |-> "header", cells |-> LOG_COLUMNS]
Blank == [kind |-> "blank"]
NoSheet == [exists |-> FALSE, rows |-> <<>>]

RECURSIVE getLastRow(_)
getLastRow(rows) ==
  IF rows = <<>> THEN 0
  ELSE IF rows[Len(rows)] # Blank THEN Len(rows)
  ELSE getLastRow(SubSeq(rows, 1, Len(rows) - 1))

\* the rows down to the last one that holds something
Used(rows) == SubSeq(rows, 1, getLastRow(rows))

\* sheet.insertRowBefore(i): a blank row at i, the rows from i on move down
insertRowBefore(rows, i) ==
  IF Len(rows) < i THEN rows
  ELSE SubSeq(rows, 1, i - 1) \o <<Blank>> \o SubSeq(rows, i, Len(rows))

\* range(i).setValues(row): rows above i that do not exist yet are blank
setRow(rows, i, row) ==
  [j \in 1..(IF Len(rows) < i THEN i ELSE Len(rows)) |->
     IF j = i THEN row ELSE IF j <= Len(rows) THEN rows[j] ELSE Blank]

\* sheet.deleteRows(from, count)
deleteRows(rows, from, count) ==
  SubSeq(rows, 1, from - 1) \o SubSeq(rows, from + count, Len(rows))

(***************************************************************************)
(* Logger.createLogSheet after insertSheet made the sheet: the header row. *)
(***************************************************************************)
createLogSheet == [exists |-> TRUE, rows |-> <<Header>>]

(***************************************************************************)
(* Logger.trimLogs.                                                        *)
(***************************************************************************)
\* trimLogs taking MAX_LOG_ENTRIES for the number of rows, header included,
\* and so deleting from the row above (a fault)
trimLogsCountsHeader(rows) ==
  LET lastRow == getLastRow(rows)
  IN  IF lastRow > MAX_LOG_ENTRIES
      THEN Used(deleteRows(rows, MAX_LOG_ENTRIES + 1, lastRow - MAX_LOG_ENTRIES))
      ELSE rows

trimLogs(rows) ==
  LET lastRow == getLastRow(rows)
  IN  IF lastRow > MAX_LOG_ENTRIES + 1
      THEN Used(deleteRows(rows, MAX_LOG_ENTRIES + 2, lastRow - MAX_LOG_ENTRIES - 1))
      ELSE rows

(***************************************************************************)
(* Texts written to the sheet.  The length of a script text is its own;    *)
(* every other text of the model is a short one.  A text longer than 1000  *)
(* is cut to its first 997 characters and "...".                           *)
(***************************************************************************)
\* text.substring(0, n): the first n characters, all of them when there are
\* fewer
Substring(text, len, n) == <<"prefix", text, IF len < n THEN len ELSE n>>

TextLength(text) ==
  IF text[1] = "script" THEN text[2].len
  ELSE IF text[1] = "text" THEN text[2]
  ELSE IF text[1] = "truncated" THEN text[2][3] + 3
  ELSE IF text[1] = "empty" THEN 0
  ELSE 1

\* the cut made when the text has 1000 characters or more (a fault)
TruncateFrom1000(text) ==
  IF IsString(text) /\ TextLength(text) >= 1000
  THEN <<"truncated", Substring(text, TextLength(text), 997)>>
  ELSE text

\* text.length > 1000 ? text.substring(0, 997) + '...' : text
Truncate(text) ==
  IF IsString(text) /\ TextLength(text) > 1000
  THEN <<"truncated", Substring(text, TextLength(text), 997)>>
  ELSE text

\* typeof result === 'object' ? JSON.stringify(result) : String(result)
ResultString(result) ==
  IF IsObject(result) THEN <<"json", result>>
  ELSE IF result = Undefined THEN Str("undefined")
  ELSE result

(***************************************************************************)
(* Logger.log on a fresh Logger (each request runs in its own instance of  *)
(* the script, so this.sheet is null and init runs).  available says       *)
(* whether the spreadsheet can be reached; when it cannot, init throws.    *)
(* Whatever is thrown inside log is caught and dropped.  The result is the *)
(* sheet afterwards and the row written, if one was: [sheet, wrote].       *)
(***************************************************************************)
LogRow(logEntry, t) ==
  [kind |-> "entry",
   title |-> IF Falsy(logEntry.title) THEN Str("Untitled") ELSE logEntry.title,
   script |-> Truncate(logEntry.script),
   result |-> Truncate(ResultString(logEntry.result)),
   status |-> IF logEntry.success THEN STATUS_SUCCESS ELSE STATUS_FAIL,
   time |-> t,
   identifier |-> IF Falsy(logEntry.identifier) THEN Str("Unknown")
                  ELSE logEntry.identifier]

\* script.length > 1000 ? script.substring(0, 997) + '...' throws when the
\* script has a length above 1000 and no substring method
TruncateThrows(script) == script[1] = "haslength" /\ script[2] > 1000

\* log writing its row below the last row, as appendRow does (a fault)
LoggerLogAppends(sh, logEntry, t, available) ==
  IF ~available THEN [threw |-> FALSE, sheet |-> sh, wrote |-> <<>>]
  ELSE LET s1 == IF sh.exists THEN sh ELSE createLogSheet
       IN  [threw |-> FALSE,
            sheet |-> [exists |-> TRUE,
                       rows |-> trimLogs(Append(s1.rows, LogRow(logEntry, t)))],
            wrote |-> <<LogRow(logEntry, t)>>]

\* log without the try/catch around its body (a fault): what init throws
\* reaches the caller
LoggerLogNoCatch(sh, logEntry, t, available) ==
  IF ~available THEN [threw |-> TRUE, sheet |-> sh, wrote |-> <<>>]
  ELSE LET s1 == IF sh.exists THEN sh ELSE createLogSheet
       IN  IF \/ IsObject(logEntry.result) /\ ~Serializable(logEntry.result)
              \/ TruncateThrows(logEntry.script)
           THEN [threw |-> FALSE, sheet |-> s1, wrote |-> <<>>]
           ELSE [threw |-> FALSE,
                 sheet |-> [exists |-> TRUE,
                            rows |-> trimLogs(setRow(insertRowBefore(s1.rows, 2), 2,
                                                     LogRow(logEntry, t)))],
                 wrote |-> <<LogRow(logEntry, t)>>]

\* threw says whether log lets an exception through to its caller: never,
\* the catch at the end of log takes them all
LoggerLog(sh, logEntry, t, available) ==
  IF ~available THEN [threw |-> FALSE, sheet |-> sh, wrote |-> <<>>]
  ELSE LET s1 == IF sh.exists THEN sh ELSE createLogSheet
       IN  IF \/ IsObject(logEntry.result) /\ ~Serializable(logEntry.result)
              \/ TruncateThrows(logEntry.script)
           THEN [threw |-> FALSE, sheet |-> s1, wrote |-> <<>>]
           ELSE [threw |-> FALSE,
                 sheet |-> [exists |-> TRUE,
                            rows |-> trimLogs(setRow(insertRowBefore(s1.rows, 2), 2,
                                                     LogRow(logEntry, t)))],
                 wrote |-> <<LogRow(logEntry, t)>>]

(***************************************************************************)
(* Logger.getStats, after init made sure the sheet is there: getDataRange  *)
(* has the rows down to the last one that holds something, and one row     *)
(* when the sheet is empty; every row but the first is counted.            *)
(***************************************************************************)
\* (x / y * 100).toFixed(2) + '%': whole percents and hundredths, rounded
ToFixed2Percent(x, y) ==
  LET h == (x * 10000 * 2 + y) \div (2 * y)
  IN  <<"percent", h \div 100, h % 100>>

CountStatus(rows, status) ==
  Cardinality({i \in 2..Len(rows) : rows[i].kind = "entry" /\ rows[i].status = status})

\* getStats with the header row counted in total (a fault)
getStatsCountsHeader(rows) ==
  LET length == IF Len(rows) = 0 THEN 1 ELSE Len(rows)
  IN  [total |-> length,
       success |-> CountStatus(rows, STATUS_SUCCESS),
       fail |-> CountStatus(rows, STATUS_FAIL),
       successRate |-> IF length > 1
                       THEN ToFixed2Percent(CountStatus(rows, STATUS_SUCCESS), length - 1)
                       ELSE <<"0%">>]

getStats(rows) ==
  LET length == IF Len(rows) = 0 THEN 1 ELSE Len(rows)
  IN  [total |-> length - 1,
       success |-> CountStatus(rows, STATUS_SUCCESS),
       fail |-> CountStatus(rows, STATUS_FAIL),
       successRate |-> IF length > 1
                       THEN ToFixed2Percent(CountStatus(rows, STATUS_SUCCESS), length - 1)
                       ELSE <<"0%">>]

(***************************************************************************)
(* Logger.clearAll, after init made sure the sheet is there: sheet.clear() *)
(* empties every cell, the header too; createLogSheet then calls           *)
(* insertSheet with the name of the sheet that exists, which throws, so    *)
(* that no header is written: [threw, sheet].                              *)
(***************************************************************************)
\* spreadsheet.insertSheet(name) throws when a sheet of that name exists
insertSheetThrows(sh) == sh.exists

clearAll(sh) ==
  LET s1 == IF sh.exists THEN sh ELSE createLogSheet
      s2 == [s1 EXCEPT !.rows = <<>>]
  IN  IF insertSheetThrows(s2) THEN [threw |-> TRUE, sheet |-> s2]
      ELSE [threw |-> FALSE, sheet |-> createLogSheet]

(***************************************************************************)
(* What arrives.                                                           *)
(***************************************************************************)
\* the instances of the script that serve requests at the same time
Slots == {1, 2}

\* the scripts posted: none, an array too long to be logged, a script too
\* long, and one for each way a script of valid length ends (returns a value
\* that has a JSON text or has none, throws an Error or throws null, calls
\* eval)
ScriptInputs ==
  {Undefined, HasLength(1001), Script(100001, <<"return", Str("hi")>>)}
  \cup {Script(12, o) : o \in {<<"return", Str("hi")>>, <<"return", Circular>>,
                                <<"return", BigInt>>,
                                <<"throw", Err("Error", "Error", "boom")>>,
                                <<"throw", Null>>,
                                <<"eval", Str("hi")>>}}
TitleInputs == {Undefined, Str("job")}
KeyInputs == {Undefined, EmptyStr, Num(7)} \cup Uuids
CreateInputs == Ids \cup {EmptyStr}

Events ==
  {[body |-> b, script |-> Undefined, title |-> Undefined, apiKey |-> Undefined] :
     b \in {"none", "invalid", "null"}}
  \cup [body : {"object"}, script : ScriptInputs, title : TitleInputs,
        apiKey : KeyInputs]

\* what a request has not got yet
None == [none |-> TRUE]

Init ==
  /\ props = [k \in Ids |-> Null]
  /\ nextUuid = 1
  /\ now = 0
  /\ ret = [op |-> "none"]
  /\ issued = [k \in Ids |-> Null]
  /\ sheet = NoSheet
  /\ served = 0
  /\ pc = [r \in Slots |-> "idle"]
  /\ ev = [r \in Slots |-> None]
  /\ request = [r \in Slots |-> None]
  /\ validation = [r \in Slots |-> None]
  /\ execution = [r \in Slots |-> None]
  /\ response = [r \in Slots |-> None]
  /\ invoked = [r \in Slots |-> 0]
  /\ logged = [r \in Slots |-> <<>>]
  /\ trace = [r \in Slots |-> <<>>]
  /\ keyData = [r \in Slots |-> Undefined]
  /\ calls = [k \in Ids |-> 0]

(***************************************************************************)
(* The menu.  showCreateApiKeyDialog trims the text typed and, when it is  *)
(* not empty, calls create and shows the key or the error;                 *)
(* showDeleteApiKeyDialog does the same with delete.                       *)
(***************************************************************************)
\* The count of the writes updateUsage has made, kept beside the store: a
\* call that reaches setProperty counts for its identifier, any other call
\* counts for nothing.
Wrote(count, store, identifier) ==
  IF identifier \in Ids /\ updateUsage(store, identifier, 0) # store
  THEN [count EXCEPT ![identifier] = @ + 1]
  ELSE count

showCreateApiKeyDialog(identifier) ==
  /\ nextUuid <= MaxUuid
  /\ ~Falsy(identifier)
  /\ LET c == create(props, identifier, Uuid(nextUuid), now)
     IN  /\ props' = c.store
         /\ nextUuid' = IF c.threw THEN nextUuid ELSE nextUuid + 1
         /\ calls' = IF c.threw THEN calls ELSE [calls EXCEPT ![identifier] = 0]
  /\ UNCHANGED <<ret, issued, now, sheet, served, reqVars>>

showDeleteApiKeyDialog(identifier) ==
  /\ ~Falsy(identifier)
  /\ props' = deleteKey(props, identifier).store
  /\ calls' = IF deleteKey(props, identifier).value
               THEN [calls EXCEPT ![identifier] = 0] ELSE calls
  /\ UNCHANGED <<nextUuid, ret, issued, now, sheet, served, reqVars>>

(***************************************************************************)
(* The methods of ApiKeyManager called one after another, ret keeping what *)
(* the last call returned or threw.                                        *)
(***************************************************************************)
CallCreate(identifier) ==
  /\ nextUuid <= MaxUuid
  /\ LET c == create(props, identifier, Uuid(nextUuid), now)
     IN  /\ props' = c.store
         /\ nextUuid' = IF c.threw THEN nextUuid ELSE nextUuid + 1
         /\ ret' = [op |-> "create", arg |-> identifier, threw |-> c.threw,
                    value |-> c.value]
         /\ issued' = IF c.threw THEN issued ELSE [issued EXCEPT ![identifier] = c.value]
         /\ calls' = IF c.threw THEN calls ELSE [calls EXCEPT ![identifier] = 0]
  /\ UNCHANGED <<now, sheet, served, reqVars>>

CallDelete(identifier) ==
  /\ LET d == deleteKey(props, identifier)
     IN  /\ props' = d.store
         /\ ret' = [op |-> "delete", arg |-> identifier, deleted |-> d.value]
         /\ issued' = IF d.value THEN [issued EXCEPT ![identifier] = Null] ELSE issued
         /\ calls' = IF d.value THEN [calls EXCEPT ![identifier] = 0] ELSE calls
  /\ UNCHANGED <<nextUuid, now, sheet, served, reqVars>>

CallUpdateUsage(identifier) ==
  /\ \A k \in Ids : props[k] # Null => JsonParse(props[k]).usageCount < MaxUsage
  /\ props' = updateUsage(props, identifier, now)
  /\ calls' = Wrote(calls, props, identifier)
  /\ ret' = [op |-> "updateUsage", arg |-> identifier]
  /\ UNCHANGED <<nextUuid, issued, now, sheet, served, reqVars>>

CallValidate(apiKey) ==
  /\ \E v \in validate(props, apiKey) :
       ret' = [op |-> "validate", arg |-> apiKey, validation |-> v]
  /\ UNCHANGED <<props, nextUuid, issued, calls, now, sheet, served, reqVars>>

Tick ==
  /\ now < MaxTime
  /\ now' = now + 1
  /\ UNCHANGED <<keyVars, sheet, served, reqVars>>

(***************************************************************************)
(* doPost, one step for each call that reads or writes what the requests   *)
(* share.  pc: idle -> parse -> validate -> updateUsage -> execute -> log  *)
(* -> respond -> done, with the returns of doPost going to done.           *)
(***************************************************************************)
Arrive(r) ==
  /\ pc[r] = "idle"
  /\ served < MaxRequests
  /\ \E e \in Events : ev' = [ev EXCEPT ![r] = e]
  /\ pc' = [pc EXCEPT ![r] = "parse"]
  /\ served' = served + 1
  /\ UNCHANGED <<keyVars, now, sheet, request, validation, execution,
                 response, invoked, logged, trace, keyData>>

\* requests served one at a time
ArriveAlone(r) ==
  /\ \A q \in Slots : pc[q] = "idle"
  /\ Arrive(r)

\* doPost without the return that follows the unauthorized log (a fault)
AfterValidateFallsThrough(v) == "updateUsage"

\* doPost going from a valid key straight to execute (a fault)
AfterValidateSkipsUpdateUsage(v) == IF v.valid THEN "execute" ELSE "logUnauthorized"

\* if (!validation.valid) { log; return unauthorized } else go on
AfterValidate(v) == IF v.valid THEN "updateUsage" ELSE "logUnauthorized"

Parse(r) ==
  /\ pc[r] = "parse"
  /\ LET rq == parseRequest(ev[r])
     IN  IF ~rq.success
         THEN /\ response' = [response EXCEPT ![r] = ResponseError(rq.error, 400, now)]
              /\ pc' = [pc EXCEPT ![r] = "done"]
              /\ UNCHANGED request
         ELSE /\ request' = [request EXCEPT ![r] = rq.data]
              /\ pc' = [pc EXCEPT ![r] = "validate"]
              /\ UNCHANGED response
  /\ trace' = [trace EXCEPT ![r] = Append(@, "parseRequest")]
  /\ UNCHANGED <<keyVars, now, sheet, served, ev, validation, execution,
                 invoked, logged, keyData>>

Validate(r) ==
  /\ pc[r] = "validate"
  /\ \E v \in validate(props, request[r].apiKey) :
       /\ validation' = [validation EXCEPT ![r] = v]
       /\ pc' = [pc EXCEPT ![r] = AfterValidate(v)]
  /\ trace' = [trace EXCEPT ![r] = Append(@, "validate")]
  /\ UNCHANGED <<keyVars, now, sheet, served, ev, request, execution,
                 response, invoked, logged, keyData>>

\* what a service of the platform throws when it cannot be reached
ServiceError == Err("Error", "Exception", "Service unavailable")

LogUnauthorized(r) ==
  /\ pc[r] = "logUnauthorized"
  /\ \E available \in BOOLEAN :
       LET l == LoggerLog(sheet,
                  [title |-> IF Falsy(request[r].title) THEN Str("Unauthorized")
                             ELSE request[r].title,
                   script |-> IF Falsy(request[r].script) THEN EmptyStr
                              ELSE request[r].script,
                   result |-> Str(INVALID_API_KEY),
                   success |-> FALSE,
                   identifier |-> Str("Unknown")], now, available)
       IN  /\ sheet' = l.sheet
           /\ logged' = [logged EXCEPT ![r] = @ \o l.wrote]
           /\ trace' = [trace EXCEPT ![r] =
                          Append(@, IF available THEN "log" ELSE "logUnavailable")]
           /\ IF l.threw
              THEN /\ response' = [response EXCEPT ![r] = doPostCatch(ServiceError, now)]
                   /\ pc' = [pc EXCEPT ![r] = "done"]
              ELSE /\ pc' = [pc EXCEPT ![r] = "respond"]
                   /\ UNCHANGED response
  /\ UNCHANGED <<keyVars, now, served, ev, request, validation, execution,
                 invoked, keyData>>

UpdateUsage(r) ==
  /\ pc[r] = "updateUsage"
  /\ props' = updateUsage(props, validation[r].identifier, now)
  /\ trace' = [trace EXCEPT ![r] = Append(@, "updateUsage")]
  /\ pc' = [pc EXCEPT ![r] = "execute"]
  /\ calls' = Wrote(calls, props, validation[r].identifier)
  /\ UNCHANGED <<nextUuid, ret, issued, now, sheet, served, ev,
                 request, validation, execution, response, invoked, logged,
                 keyData>>

\* validate whose getKeys() throws: nothing catches it before doPost's catch
ValidateThrows(r) ==
  /\ pc[r] = "validate"
  /\ ~Falsy(request[r].apiKey) /\ IsString(request[r].apiKey)
  /\ response' = [response EXCEPT ![r] =
                    doPostCatch(ServiceError, now)]
  /\ pc' = [pc EXCEPT ![r] = "done"]
  /\ trace' = [trace EXCEPT ![r] = Append(@, "validate")]
  /\ UNCHANGED <<keyVars, now, sheet, served, ev, request, validation,
                 execution, invoked, logged, keyData>>

\* updateUsage whose getProperty() throws, outside the try of updateUsage
UpdateUsageThrows(r) ==
  /\ pc[r] = "updateUsage"
  /\ response' = [response EXCEPT ![r] =
                    doPostCatch(ServiceError, now)]
  /\ pc' = [pc EXCEPT ![r] = "done"]
  /\ trace' = [trace EXCEPT ![r] = Append(@, "updateUsage")]
  /\ UNCHANGED <<keyVars, now, sheet, served, ev, request, validation,
                 execution, invoked, logged, keyData>>

\* createContext only names the services; execute takes d on the clock
Execute(r) ==
  /\ pc[r] = "execute"
  /\ \E d \in 0..(MaxTime - now) :
       LET x == execute(request[r].script, d)
       IN  /\ now' = now + d
           /\ invoked' = [invoked EXCEPT ![r] = @ + (IF x.invoked THEN 1 ELSE 0)]
           /\ IF x.threw
              THEN /\ response' = [response EXCEPT ![r] =
                         doPostCatch(x.error, now + d)]
                   /\ pc' = [pc EXCEPT ![r] = "done"]
                   /\ UNCHANGED execution
              ELSE /\ execution' = [execution EXCEPT ![r] = x.value]
                   /\ pc' = [pc EXCEPT ![r] = "log"]
                   /\ UNCHANGED response
  /\ trace' = [trace EXCEPT ![r] = Append(@, "execute")]
  /\ UNCHANGED <<keyVars, sheet, served, ev, request, validation, logged,
                 keyData>>

Log(r) ==
  /\ pc[r] = "log"
  /\ \E available \in BOOLEAN :
       LET l == LoggerLog(sheet,
                  [title |-> request[r].title,
                   script |-> request[r].script,
                   result |-> IF execution[r].success THEN execution[r].result
                              ELSE execution[r].error,
                   success |-> execution[r].success,
                   identifier |-> validation[r].identifier], now, available)
       IN  /\ sheet' = l.sheet
           /\ logged' = [logged EXCEPT ![r] = @ \o l.wrote]
           /\ trace' = [trace EXCEPT ![r] =
                          Append(@, IF available THEN "log" ELSE "logUnavailable")]
           /\ IF l.threw
              THEN /\ response' = [response EXCEPT ![r] = doPostCatch(ServiceError, now)]
                   /\ pc' = [pc EXCEPT ![r] = "done"]
              ELSE /\ pc' = [pc EXCEPT ![r] = "respond"]
                   /\ UNCHANGED response
  /\ UNCHANGED <<keyVars, now, served, ev, request, validation, execution,
                 invoked, keyData>>

Respond(r) ==
  /\ pc[r] = "respond"
  /\ response' = [response EXCEPT ![r] =
       IF ~validation[r].valid THEN ResponseUnauthorized(now)
       ELSE IF execution[r].success
       THEN LET s == ResponseSuccess(execution[r].result, execution[r].executionTime, now)
            IN  IF s.threw THEN doPostCatch(s.value, now)
                ELSE s.value
       ELSE ResponseErrorTimed(<<SCRIPT_EXECUTION_ERROR, execution[r].error>>, 400,
                               execution[r].executionTime, now)]
  /\ pc' = [pc EXCEPT ![r] = "done"]
  /\ trace' = [trace EXCEPT ![r] = Append(@, "respond")]
  /\ UNCHANGED <<keyVars, now, sheet, served, ev, request, validation,
                 execution, invoked, logged, keyData>>

\* the caller has the response; the instance of the script ends
Leave(r) ==
  /\ pc[r] = "done"
  /\ pc' = [pc EXCEPT ![r] = "idle"]
  /\ ev' = [ev EXCEPT ![r] = None]
  /\ request' = [request EXCEPT ![r] = None]
  /\ validation' = [validation EXCEPT ![r] = None]
  /\ execution' = [execution EXCEPT ![r] = None]
  /\ response' = [response EXCEPT ![r] = None]
  /\ invoked' = [invoked EXCEPT ![r] = 0]
  /\ logged' = [logged EXCEPT ![r] = <<>>]
  /\ trace' = [trace EXCEPT ![r] = <<>>]
  /\ keyData' = [keyData EXCEPT ![r] = Undefined]
  /\ UNCHANGED <<keyVars, now, sheet, served>>

doPost(r) ==
  \/ Parse(r)
  \/ Validate(r)
  \/ LogUnauthorized(r)
  \/ UpdateUsage(r)
  \/ Execute(r)
  \/ Log(r)
  \/ Respond(r)
  \/ Leave(r)

Menu ==
  \/ \E identifier \in Ids : showCreateApiKeyDialog(identifier)
  \/ \E identifier \in Ids : showDeleteApiKeyDialog(identifier)

\* requests served one after another, the menu in use meanwhile
Next ==
  \/ Menu
  \/ ArriveAlone(1)
  \/ \E r \in Slots : doPost(r)

Spec == Init /\ [][Next]_vars

\* the key store alone, its methods called in any order
NextKeys ==
  \/ \E identifier \in CreateInputs : CallCreate(identifier)
  \/ \E identifier \in Ids : CallDelete(identifier)
  \/ \E identifier \in Ids : CallUpdateUsage(identifier)
  \/ \E apiKey \in KeyInputs : CallValidate(apiKey)
  \/ Tick

SpecKeys == Init /\ [][NextKeys]_vars

(***************************************************************************)
(* The methods of ScriptExecutor called one after another, ret keeping     *)
(* what the last call returned or threw.                                   *)
(***************************************************************************)
\* lengths around CONFIG.LIMITS.MAX_SCRIPT_LENGTH
\* What a script finds beside its context.  new Function builds a function
\* whose scope is the global scope, so a name the script does not declare is
\* looked up among the globals of the project: PropertiesService,
\* apiKeyManager, logger, CONFIG.  The global state taken here is the script
\* property of alice, absent or present.
AmbientStates == {Null, JsonStringify(newKeyData(Str("alice"), Uuid(1), 0))}

\* return PropertiesService.getScriptProperties().getProperty('alice');
ReadsAmbient == Script(12, <<"global">>)

\* the script with its free names bound as the global scope binds them
Resolve(script, ambient) ==
  IF script = ReadsAmbient THEN Script(12, <<"return", ambient>>) ELSE script

executeIn(script, ambient, d) == execute(Resolve(script, ambient), d)

ScriptLengths == {1, MAX_SCRIPT_LENGTH - 1, MAX_SCRIPT_LENGTH, MAX_SCRIPT_LENGTH + 1}

\* the arguments of execute: no string, the empty string, and a script of
\* each length for each way it ends
ExecuteInputs ==
  {Undefined, Null, EmptyStr, Num(42)}
  \cup {Script(l, o) : l \in ScriptLengths, o \in Outcomes}

CallValidateScript(script) ==
  /\ ret' = [op |-> "validateScript", arg |-> script, thrown |-> validateScript(script)]
  /\ UNCHANGED <<props, nextUuid, issued, calls, now, sheet, served, reqVars>>

CallExecute(script) ==
  /\ \E d \in 0..(MaxTime - now) :
       LET x == execute(script, d)
       IN  /\ now' = now + d
           /\ ret' = IF x.threw
                     THEN [op |-> "execute", arg |-> script, threw |-> TRUE,
                           invoked |-> x.invoked, error |-> x.error]
                     ELSE [op |-> "execute", arg |-> script, threw |-> FALSE,
                           invoked |-> x.invoked, execution |-> x.value]
  /\ UNCHANGED <<props, nextUuid, issued, calls, sheet, served, reqVars>>

\* the same script executed with the same context in two global states
CallExecutePair(script, a1, a2) ==
  /\ \E d1 \in 0..(MaxTime - now) : \E d2 \in 0..(MaxTime - now - d1) :
       /\ now' = now + d1 + d2
       /\ ret' = [op |-> "executePair", arg |-> script,
                  first |-> executeIn(script, a1, d1),
                  second |-> executeIn(script, a2, d2)]
  /\ UNCHANGED <<props, nextUuid, issued, calls, sheet, served, reqVars>>

NextExec ==
  \/ \E script \in ExecuteInputs : CallValidateScript(script)
  \/ \E script \in ExecuteInputs : CallExecute(script)
  \/ \E script \in ExecuteInputs \cup {ReadsAmbient} :
       \E a1, a2 \in AmbientStates : CallExecutePair(script, a1, a2)
  \/ Tick

SpecExec == Init /\ [][NextExec]_vars

(***************************************************************************)
(* The methods of Logger called one after another in the spreadsheet, ret  *)
(* keeping what the last call returned and logged[1] the rows written      *)
(* since the log was last empty, oldest first.                             *)
(***************************************************************************)
\* the entries logged: scripts and results around the 1000 characters of
\* the cut, both statuses, and two entries that log drops (a script with a
\* length and no substring, a result without a JSON text)
LogInputs ==
  {[title |-> Str("job"), script |-> x[1], result |-> x[2], success |-> x[3],
    identifier |-> Str("alice")] :
     x \in {<<Text(1000), Str("hi"), TRUE>>,
            <<Text(1001), Formatted("Error", "boom"), FALSE>>,
            <<Text(1500), Text(1001), TRUE>>,
            <<Text(997), Text(1000), FALSE>>,
            <<HasLength(1001), Formatted("Error", "Script must be a non-empty string"),
              FALSE>>,
            <<Text(12), Circular, TRUE>>}}

CallLog(logEntry) ==
  /\ Len(logged[1]) <= MAX_LOG_ENTRIES + 1
  /\ LET l == LoggerLog(sheet, logEntry, now, TRUE)
     IN  /\ sheet' = l.sheet
         /\ logged' = [logged EXCEPT ![1] = @ \o l.wrote]
         /\ ret' = [op |-> "log", arg |-> logEntry, wrote |-> l.wrote]
  /\ UNCHANGED <<props, nextUuid, issued, calls, now, served, pc, ev,
                 request, validation, execution, response, invoked, trace,
                 keyData>>

CallGetStats ==
  /\ sheet' = IF sheet.exists THEN sheet ELSE createLogSheet
  /\ ret' = [op |-> "getStats", stats |-> getStats(sheet'.rows)]
  /\ UNCHANGED <<props, nextUuid, issued, calls, now, served, reqVars>>

CallClearAll ==
  /\ sheet' = clearAll(sheet).sheet
  /\ ret' = [op |-> "clearAll", threw |-> clearAll(sheet).threw]
  /\ logged' = [logged EXCEPT ![1] = <<>>]
  /\ UNCHANGED <<props, nextUuid, issued, calls, now, served, pc, ev,
                 request, validation, execution, response, invoked, trace,
                 keyData>>

NextLog ==
  \/ \E logEntry \in LogInputs : CallLog(logEntry)
  \/ CallGetStats
  \/ CallClearAll

SpecLog == Init /\ [][NextLog]_vars

\* requests served one after another while the script properties may be out
\* of reach
NextOutage ==
  \/ Menu
  \/ ArriveAlone(1)
  \/ \E r \in Slots : doPost(r)
  \/ \E r \in Slots : ValidateThrows(r)
  \/ \E r \in Slots : UpdateUsageThrows(r)

SpecOutage == Init /\ [][NextOutage]_vars

(***************************************************************************)
(* Properties.                                                             *)
(***************************************************************************)
(***************************************************************************)
(* Two requests served at the same time.  The web app runs one doPost per  *)
(* request and takes no lock, so the calls of two requests interleave at   *)
(* every access to the property store and to the sheet.  updateUsage is    *)
(* two accesses: getProperty, then setProperty of the text computed from   *)
(* what getProperty returned.  Both identifiers have their key already.    *)
(***************************************************************************)
InitConc ==
  /\ props = [k \in Ids |->
               JsonStringify(newKeyData(k, IF k = Str("alice") THEN Uuid(1) ELSE Uuid(2), 0))]
  /\ nextUuid = 3
  /\ now = MaxTime
  /\ ret = [op |-> "none"]
  /\ issued = [k \in Ids |-> IF k = Str("alice") THEN Uuid(1) ELSE Uuid(2)]
  /\ sheet = NoSheet
  /\ served = 0
  /\ pc = [r \in Slots |-> "idle"]
  /\ ev = [r \in Slots |-> None]
  /\ request = [r \in Slots |-> None]
  /\ validation = [r \in Slots |-> None]
  /\ execution = [r \in Slots |-> None]
  /\ response = [r \in Slots |-> None]
  /\ invoked = [r \in Slots |-> 0]
  /\ logged = [r \in Slots |-> <<>>]
  /\ trace = [r \in Slots |-> <<>>]
  /\ keyData = [r \in Slots |-> Undefined]
  /\ calls = [k \in Ids |-> 0]

ConcEvents ==
  [body : {"object"}, script : {Script(12, <<"return", Str("hi")>>)},
   title : {Str("job")}, apiKey : {Uuid(1), Uuid(2), Num(7)}]

ArriveConc(r) ==
  /\ pc[r] = "idle"
  /\ served < MaxArrivals
  /\ \E e \in ConcEvents : ev' = [ev EXCEPT ![r] = e]
  /\ pc' = [pc EXCEPT ![r] = "parse"]
  /\ served' = served + 1
  /\ UNCHANGED <<keyVars, now, sheet, request, validation, execution,
                 response, invoked, logged, trace, keyData>>

\* const keyData = this.scriptProperties.getProperty(identifier)
UpdateUsageRead(r) ==
  /\ pc[r] = "updateUsage"
  /\ keyData' = [keyData EXCEPT ![r] = props[validation[r].identifier]]
  /\ pc' = [pc EXCEPT ![r] = "setProperty"]
  /\ UNCHANGED <<keyVars, now, sheet, served, ev, request, validation,
                 execution, response, invoked, logged, trace>>

\* if (keyData) { parse it, set lastUsed, add one, setProperty }; the text
\* stored is computed from keyData, whatever the store holds by now
UpdateUsageWrite(r) ==
  /\ pc[r] = "setProperty"
  /\ LET identifier == validation[r].identifier
         read == [props EXCEPT ![identifier] = keyData[r]]
         written == updateUsage(read, identifier, now)
     IN  /\ props' = IF written = read THEN props
                      ELSE [props EXCEPT ![identifier] = written[identifier]]
         /\ calls' = Wrote(calls, read, identifier)
  /\ trace' = [trace EXCEPT ![r] = Append(@, "updateUsage")]
  /\ pc' = [pc EXCEPT ![r] = "execute"]
  /\ UNCHANGED <<nextUuid, ret, issued, now, sheet, served, ev, request,
                 validation, execution, response, invoked, logged, keyData>>

doPostConc(r) ==
  \/ Parse(r)
  \/ Validate(r)
  \/ LogUnauthorized(r)
  \/ UpdateUsageRead(r)
  \/ UpdateUsageWrite(r)
  \/ Execute(r)
  \/ Log(r)
  \/ Respond(r)
  \/ Leave(r)

NextConc ==
  \/ \E r \in Slots : ArriveConc(r)
  \/ \E r \in Slots : doPostConc(r)

SpecConc == InitConc /\ [][NextConc]_vars

\* Requests served at the same time that never share a key: a request with
\* a stored key arrives only while no request with that key is being served.
ArriveApart(r) ==
  /\ pc[r] = "idle"
  /\ served < MaxArrivals
  /\ \E e \in ConcEvents :
       /\ \A q \in Slots \ {r} :
            IF pc[q] = "idle" \/ e.apiKey \notin Uuids THEN TRUE
            ELSE ev[q].apiKey # e.apiKey
       /\ ev' = [ev EXCEPT ![r] = e]
  /\ pc' = [pc EXCEPT ![r] = "parse"]
  /\ served' = served + 1
  /\ UNCHANGED <<keyVars, now, sheet, request, validation, execution,
                 response, invoked, logged, trace, keyData>>

NextApart ==
  \/ \E r \in Slots : ArriveApart(r)
  \/ \E r \in Slots : doPostConc(r)

SpecApart == InitConc /\ [][NextApart]_vars

\* Keys deleted while requests are served: delete is a call of its own (the
\* menu of the spreadsheet), taking no lock either.
NextRevoke ==
  \/ \E r \in Slots : ArriveConc(r)
  \/ \E r \in Slots : doPostConc(r)
  \/ \E identifier \in Ids : CallDelete(identifier)

SpecRevoke == InitConc /\ [][NextRevoke]_vars

(***************************************************************************)
(* create called by two users of the menu at the same time.  create is two *)
(* accesses to the property store: getProperty for the check, and          *)
(* setProperty of the new record; no lock is taken.  ev[r] is the argument *)
(* of caller r and response[r] what its call returned or threw.            *)
(***************************************************************************)
\* the checks of create, down to if (getProperty(identifier)) throw
CreateCheck(r, identifier) ==
  /\ pc[r] = "idle"
  /\ ev' = [ev EXCEPT ![r] = [identifier |-> identifier]]
  /\ LET c == create(props, identifier, Uuid(0), now)
     IN  IF c.threw
         THEN /\ response' = [response EXCEPT ![r] =
                               [threw |-> TRUE, value |-> c.value]]
              /\ pc' = [pc EXCEPT ![r] = "returned"]
         ELSE /\ pc' = [pc EXCEPT ![r] = "createStore"]
              /\ UNCHANGED response
  /\ UNCHANGED <<keyVars, now, sheet, served, request, validation, execution,
                 invoked, logged, trace, keyData>>

\* getUuid, setProperty of the new record whatever the store holds by now,
\* return apiKey
CreateStore(r) ==
  /\ pc[r] = "createStore"
  /\ nextUuid <= MaxUuid
  /\ LET identifier == ev[r].identifier
         c == create([props EXCEPT ![identifier] = Null], identifier,
                     Uuid(nextUuid), now)
     IN  /\ props' = [props EXCEPT ![identifier] = c.store[identifier]]
         /\ calls' = [calls EXCEPT ![identifier] = 0]
         /\ response' = [response EXCEPT ![r] =
                           [threw |-> FALSE, value |-> c.value]]
  /\ nextUuid' = nextUuid + 1
  /\ pc' = [pc EXCEPT ![r] = "returned"]
  /\ UNCHANGED <<ret, issued, now, sheet, served, ev, request, validation,
                 execution, invoked, logged, trace, keyData>>

NextCreate ==
  \/ \E r \in Slots : \E identifier \in CreateInputs : CreateCheck(r, identifier)
  \/ \E r \in Slots : CreateStore(r)
  \/ Tick

SpecCreate == Init /\ [][NextCreate]_vars

(***************************************************************************)
(* Logger.log called by two requests at the same time.  After the entry is *)
(* built, log makes three accesses to the sheet: insertRowBefore(2),       *)
(* setValues on row 2, and trimLogs; no lock is taken.  ev[r] is the entry *)
(* of caller r, logged[r] the row it wrote.                                *)
(***************************************************************************)
ConcLogInputs ==
  {[title |-> Str("job"), script |-> Text(12), result |-> x[1], success |-> x[2],
    identifier |-> x[3]] :
     x \in {<<Str("hi"), TRUE, Str("alice")>>,
            <<Formatted("Error", "boom"), FALSE, Str("bob")>>}}

\* init when the sheet is not there yet, then this.sheet.insertRowBefore(2)
LogInsert(r, logEntry) ==
  /\ pc[r] = "idle"
  /\ served < MaxArrivals
  /\ ev' = [ev EXCEPT ![r] = logEntry]
  /\ LET s1 == IF sheet.exists THEN sheet ELSE createLogSheet
     IN  sheet' = [exists |-> TRUE, rows |-> insertRowBefore(s1.rows, 2)]
  /\ pc' = [pc EXCEPT ![r] = "setValues"]
  /\ served' = served + 1
  /\ UNCHANGED <<keyVars, now, request, validation, execution, response,
                 invoked, logged, trace, keyData>>

\* this.sheet.getRange(2, 1, 1, 6).setValues(...)
LogWrite(r) ==
  /\ pc[r] = "setValues"
  /\ sheet' = [sheet EXCEPT !.rows = setRow(sheet.rows, 2, LogRow(ev[r], now))]
  /\ logged' = [logged EXCEPT ![r] = <<LogRow(ev[r], now)>>]
  /\ pc' = [pc EXCEPT ![r] = "trimLogs"]
  /\ UNCHANGED <<keyVars, now, served, ev, request, validation, execution,
                 response, invoked, trace, keyData>>

\* this.trimLogs(), then log returns
LogTrim(r) ==
  /\ pc[r] = "trimLogs"
  /\ sheet' = [sheet EXCEPT !.rows = trimLogs(sheet.rows)]
  /\ pc' = [pc EXCEPT ![r] = "idle"]
  /\ ev' = [ev EXCEPT ![r] = None]
  /\ logged' = [logged EXCEPT ![r] = <<>>]
  /\ UNCHANGED <<keyVars, now, served, request, validation, execution,
                 response, invoked, trace, keyData>>

NextLogConc ==
  \/ \E r \in Slots : \E logEntry \in ConcLogInputs : LogInsert(r, logEntry)
  \/ \E r \in Slots : LogWrite(r)
  \/ \E r \in Slots : LogTrim(r)

SpecLogConc == Init /\ [][NextLogConc]_vars

(***************************************************************************)
(* Requests served to their end.  The platform runs every invocation of    *)
(* doPost until it returns or throws, and the scripts taken here           *)
(* terminate, so no request stays for ever before a step it can take.      *)
(***************************************************************************)
LiveEvents ==
  {[body |-> b, script |-> Undefined, title |-> Undefined, apiKey |-> Undefined] :
     b \in {"none", "invalid"}}
  \cup [body : {"object"},
        script : {Script(12, o) : o \in {<<"return", Str("hi")>>,
                                         <<"return", ToJsonThrowsNull>>,
                                         <<"throw", Err("Error", "Error", "boom")>>,
                                         <<"throw", Null>>}},
        title : {Str("job")},
        apiKey : {Uuid(1), Num(7)}]

ArriveLive(r) ==
  /\ pc[r] = "idle"
  /\ served < MaxArrivals
  /\ \E e \in LiveEvents : ev' = [ev EXCEPT ![r] = e]
  /\ pc' = [pc EXCEPT ![r] = "parse"]
  /\ served' = served + 1
  /\ UNCHANGED <<keyVars, now, sheet, request, validation, execution,
                 response, invoked, logged, trace, keyData>>

doPostLive(r) ==
  \/ doPostConc(r)
  \/ ValidateThrows(r)
  \/ UpdateUsageThrows(r)

NextLive ==
  \/ \E r \in Slots : ArriveLive(r)
  \/ \E r \in Slots : doPostLive(r)

SpecLive == InitConc /\ [][NextLive]_vars /\ \A r \in Slots : WF_vars(doPostLive(r))

Range(f) == {f[i] : i \in DOMAIN f}
\* call a comes before call b in the calls of request r
CalledBefore(r, a, b) ==
  \E i, j \in DOMAIN trace[r] : i < j /\ trace[r][i] = a /\ trace[r][j] = b
\* the request has no body, a body that is no JSON object, or lacks a field
Malformed(e) ==
  e.body # "object" \/ Falsy(e.script) \/ Falsy(e.title) \/ Falsy(e.apiKey)
\* a record with this secret is stored
Stored(apiKey) ==
  \E k \in Ids : props[k] # Null /\ JsonParses(props[k])
                   /\ JsonParse(props[k]).apiKey = apiKey

\* C1: doPost passes the script to execute only after validate returned
\* valid=true for the key of the same request, and validate returns valid=true
\* only for a key that a stored record holds; a request that fails parsing or
\* whose key matches no record never gets its script executed or invoked.
C1_ExecuteOnlyAfterValidKey ==
  /\ [](\A r \in Slots :
          (pc[r] = "execute" \/ "execute" \in Range(trace[r]) \/ invoked[r] > 0
             \/ execution[r] # None)
            => /\ ~Malformed(ev[r])
               /\ "validate" \in Range(trace[r])
               /\ "execute" \in Range(trace[r]) => CalledBefore(r, "validate", "execute")
               /\ validation[r] # None
               /\ validation[r].valid)
  /\ [][\A r \in Slots :
          (pc[r] = "validate" /\ pc'[r] # "validate" /\ ~Stored(request[r].apiKey))
            => (~validation'[r].valid /\ pc'[r] \notin {"updateUsage", "execute"})]_vars

\* C1 witness: the script of a request with a valid key was invoked
C1_Witness ==
  pc[1] = "log" /\ invoked[1] = 1 /\ validation[1].valid
    /\ trace[1] = <<"parseRequest", "validate", "updateUsage", "execute">>

\* C2: after any sequence of create, delete and updateUsage calls, validate of
\* the secret returned by the create that made a current record returns
\* {valid: true, identifier: id}, and validate of every other value (a secret
\* never issued, the secret of a deleted record, an empty or non-string value)
\* returns {valid: false, identifier: null}.
C2_ValidateAcceptsExactlyCurrentSecrets ==
  /\ \A id \in Ids :
       issued[id] # Null
         => validate(props, issued[id]) = {[valid |-> TRUE, identifier |-> id]}
  /\ \A s \in KeyInputs :
       (\A id \in Ids : issued[id] # s) => validate(props, s) = {Invalid}

\* C2 witness: both secrets were issued, alice's record was deleted, bob's was
\* used, and validate has just accepted bob's secret
C2_Witness ==
  /\ ret.op = "validate"
  /\ ret.validation = [valid |-> TRUE, identifier |-> Str("bob")]
  /\ ret.arg = issued[Str("bob")]
  /\ issued[Str("alice")] = Null
  /\ nextUuid > 2
  /\ JsonParse(props[Str("bob")]).usageCount > 0

\* C3: create(id) for an identifier that has a record throws and leaves the
\* key store as it was (the record keeps secret, createdAt, lastUsed and
\* usageCount, no secret is used up), and the secret of the first create still
\* validates.
C3_DuplicateCreateFails ==
  [][\A id \in Ids :
       (CallCreate(id) /\ props[id] # Null)
         => /\ ret'.threw
            /\ props' = props
            /\ nextUuid' = nextUuid
            /\ issued' = issued
            /\ validate(props', issued[id]) = {[valid |-> TRUE, identifier |-> id]}]_vars

\* C3 witness: a create for an identifier whose record had been used threw
C3_Witness ==
  /\ ret.op = "create"
  /\ ret.threw
  /\ ret.arg \in Ids
  /\ props[ret.arg] # Null
  /\ JsonParse(props[ret.arg]).usageCount > 0
  /\ JsonParse(props[ret.arg]).apiKey = issued[ret.arg]

\* C4: delete(id) returns true exactly when id had a record; the record is
\* then gone, its secret no longer validates and the other records are as
\* before; when id had no record the key store is unchanged.
C4_DeleteReturnsWhetherRecordExisted ==
  [][\A id \in Ids :
       CallDelete(id)
         => /\ ret'.deleted = (props[id] # Null)
            /\ props[id] # Null
                 => /\ props'[id] = Null
                    /\ validate(props', JsonParse(props[id]).apiKey) = {Invalid}
                    /\ \A k \in Ids \ {id} : props'[k] = props[k]
            /\ props[id] = Null => props' = props]_vars

\* C4 witness: a delete returned true, the record is gone, another is left
C4_Witness ==
  /\ ret.op = "delete"
  /\ ret.deleted
  /\ props[ret.arg] = Null
  /\ issued[ret.arg] = Null
  /\ \E k \in Ids : props[k] # Null

Unauthorized(r) ==
  pc[r] \notin {"idle", "parse", "validate"} /\ ~Malformed(ev[r])
    /\ validation[r] # None /\ ~validation[r].valid

\* C6: for every subset of {script, title, apiKey} that is missing or empty
\* in a JSON body, the error message of parseRequest names every field of
\* that subset and no field that is present.  The JSON text null is a body
\* in which all three are missing.
C6_ParseErrorNamesEveryMissingField ==
  \A r \in Slots :
    (pc[r] = "done" /\ ev[r].body \in {"object", "null"} /\ Malformed(ev[r]))
      => response[r].error = MissingFields(ev[r])

\* C7: a well-formed request whose key matches no stored record is answered
\* with 401 and the fixed message and has exactly one audit entry, with
\* status "fail" and the sentinel identifier (written 'Unknown' by doPost).
\* Stated for requests whose log could be written.
C7_UnknownKeyLogsExactlyOneUnknown ==
  \A r \in Slots :
    (pc[r] = "done" /\ Unauthorized(r) /\ "logUnavailable" \notin Range(trace[r]))
      => /\ response[r].statusCode = 401
         /\ response[r].error = <<INVALID_API_KEY>>
         /\ Len(logged[r]) = 1
         /\ logged[r][1].status = STATUS_FAIL
         /\ logged[r][1].identifier \in {Str("unknown"), Str("Unknown")}

\* C8: a request whose apiKey is absent or empty is answered with statusCode
\* 401 and an audit entry with identifier "unknown" is written.
C8_MissingKeyIs401 ==
  \A r \in Slots :
    (pc[r] = "done" /\ ev[r].body = "object" /\ Falsy(ev[r].apiKey))
      => /\ response[r].statusCode = 401
         /\ Len(logged[r]) = 1
         /\ logged[r][1].identifier \in {Str("unknown"), Str("Unknown")}

\* C9: every request that passed authentication and reached execute has, when
\* it is answered, exactly one audit entry, written after execute and before
\* the response, whose status is "success" iff the execution result has
\* success=true and whose identifier is the one validate returned.  Stated
\* for requests whose log could be written.
C9_ExecutedRequestLogsOnce ==
  \A r \in Slots :
    (pc[r] = "done" /\ "execute" \in Range(trace[r])
       /\ "logUnavailable" \notin Range(trace[r]))
      => /\ CalledBefore(r, "execute", "log")
         /\ Len(logged[r]) = 1
         /\ logged[r][1].identifier = validation[r].identifier
         /\ execution[r] # None
         /\ (logged[r][1].status = STATUS_SUCCESS) = execution[r].success

\* C10: for an authenticated request the response is determined by the
\* execution result: success=true, the result and the execution time when
\* execution succeeded; success=false, statusCode 400, the execution-error
\* prefix with the formatted error and the execution time when it failed.
C10_ResponseFollowsExecution ==
  \A r \in Slots :
    (pc[r] = "done" /\ validation[r] # None /\ validation[r].valid
       /\ execution[r] # None)
      => IF execution[r].success
         THEN /\ response[r].success
              /\ response[r].result = execution[r].result
              /\ response[r].executionTime = execution[r].executionTime
         ELSE /\ ~response[r].success
              /\ response[r].statusCode = 400
              /\ response[r].error = <<SCRIPT_EXECUTION_ERROR, execution[r].error>>
              /\ response[r].executionTime = execution[r].executionTime

\* an exception left the stage that raised it and reached the catch of doPost
Escaped(r) ==
  \/ trace[r][Len(trace[r])] \in {"validate", "updateUsage", "execute"}
  \/ /\ trace[r][Len(trace[r])] = "respond"
     /\ execution[r] # None
     /\ execution[r].success
     /\ ~Serializable(execution[r].result)

\* an exception was raised somewhere while the request was served
Raised(r) ==
  \/ ev[r].body \in {"invalid", "null"}
  \/ "logUnavailable" \in Range(trace[r])
  \/ (execution[r] # None /\ ~execution[r].success)
  \/ Escaped(r)

C12_LengthBoundaryIsExact ==
  /\ MAX_SCRIPT_LENGTH = 100000
  /\ ret.op = "validateScript" /\ ret.arg[1] = "script"
       => /\ (ret.thrown # Null) = (ret.arg[2].len > MAX_SCRIPT_LENGTH)
          /\ ret.arg[2].len = 100000 => ret.thrown = Null
          /\ ret.arg[2].len = 100001
               => ret.thrown = Err("Error", "Error", "Script exceeds maximum length")
  /\ (ret.op = "execute" /\ ret.arg[1] = "script" /\ ~ret.threw)
       => (ret.execution.error = Formatted("Error", "Script exceeds maximum length"))
            = (ret.arg[2].len > MAX_SCRIPT_LENGTH)

\* C12 witness: a script of exactly MAX_SCRIPT_LENGTH characters passed
\* validation and was run by execute
C12_Witness ==
  /\ ret.op = "execute"
  /\ ret.arg[1] = "script"
  /\ ret.arg[2].len = MAX_SCRIPT_LENGTH
  /\ ret.invoked
  /\ ~ret.threw
  /\ ret.execution.success

\* C14: execute rejects, without invoking it, every script that matches a
\* pattern of the denylist (a call of eval, for one), returning
\* success=false.
C14_DenylistedScriptIsRejected ==
  (ret.op = "execute" /\ MatchesDenylist(ret.arg))
    => /\ ~ret.invoked
       /\ ~ret.threw
       /\ ~ret.execution.success

\* the script of the request does not pass the validation the spec describes
FailsValidation(script) == validateScript(script) # Null \/ MatchesDenylist(script)

\* C13: when an authenticated request carries a script that fails validation
\* (no string, too long, or matching the denylist), the script is never
\* invoked, the answer is an execution failure (statusCode 400 with the
\* execution time), exactly one audit entry with status "fail" and the
\* authenticated identifier is written, and updateUsage has been called.
\* Stated for requests whose log could be written.
C13_InvalidScriptIsExecutionFailure ==
  \A r \in Slots :
    (pc[r] = "done" /\ validation[r] # None /\ validation[r].valid
       /\ FailsValidation(request[r].script)
       /\ "logUnavailable" \notin Range(trace[r]))
      => /\ invoked[r] = 0
         /\ "updateUsage" \in Range(trace[r])
         /\ execution[r] # None
         /\ ~execution[r].success
         /\ response[r].statusCode = 400
         /\ response[r].executionTime = execution[r].executionTime
         /\ Len(logged[r]) = 1
         /\ logged[r][1].status = STATUS_FAIL
         /\ logged[r][1].identifier = validation[r].identifier

\* C15 as stated: every value execute returns has a non-negative
\* executionTime and exactly one of result and error populated.
C15_ExactlyOneOfResultAndError ==
  (ret.op = "execute" /\ ~ret.threw)
    => /\ ret.execution.executionTime >= 0
       /\ (ret.execution.result \notin {Null, Undefined})
            # (ret.execution.error \notin {Null, Undefined})

\* C15: every value execute returns has an executionTime of at least 0 and
\* never both a result and an error: success=true implies that error is null, the
\* script was invoked and result is the value it returned, which is
\* undefined or null when the script returns that or returns nothing;
\* success=false implies that result is null and error is a formatted,
\* non-empty string ("<kind>: <message>").
C15_ExecuteResultIsWellFormed ==
  (ret.op = "execute" /\ ~ret.threw)
    => LET x == ret.execution
       IN  /\ x.executionTime >= 0
           /\ x.success \in BOOLEAN
           /\ x.success => /\ x.error = Null
                           /\ ret.invoked
                           /\ validateScript(ret.arg) = Null
                           /\ ret.arg[2].out[1] \in {"return", "eval"}
                           /\ x.result = ret.arg[2].out[2]
           /\ ~x.success => /\ x.result = Null
                            /\ x.error # Null
                            /\ x.error[1] = "string"
                            /\ Len(x.error) = 3
                            /\ x.error[2] # ""

\* C15 witness: a script that took time and threw a string
C15_Witness ==
  /\ ret.op = "execute"
  /\ ~ret.threw
  /\ ret.invoked
  /\ ret.arg[2].out = <<"throw", Str("oops")>>
  /\ ~ret.execution.success
  /\ ret.execution.executionTime > 0
  /\ ret.execution.error = Formatted("Error", "undefined")

\* the rows below the first row
Entries(rows) == SubSeq(rows, 2, Len(rows))

\* C16: every script or result text that Logger.log stores has at most 1000
\* characters: a text of more than 1000 characters is stored as its first
\* 997 characters followed by "..." (1000 characters), and a text of 1000
\* characters or fewer is stored unchanged.
C16_StoredTextsAreAtMost1000 ==
  /\ \A i \in 2..Len(sheet.rows) :
       sheet.rows[i].kind = "entry"
         => /\ TextLength(sheet.rows[i].script) <= 1000
            /\ TextLength(sheet.rows[i].result) <= 1000
  /\ (ret.op = "log" /\ ret.wrote # <<>>)
       => LET script == ret.arg.script
              result == ResultString(ret.arg.result)
              w == ret.wrote[1]
          IN  /\ TextLength(script) > 1000
                   => /\ w.script = <<"truncated", <<"prefix", script, 997>>>>
                      /\ TextLength(w.script) = 1000
              /\ TextLength(script) <= 1000 => w.script = script
              /\ TextLength(result) > 1000
                   => /\ w.result = <<"truncated", <<"prefix", result, 997>>>>
                      /\ TextLength(w.result) = 1000
              /\ TextLength(result) <= 1000 => w.result = result

\* C16 witness: a script of 1500 characters with a result of 1001 characters
\* was logged above an entry whose script of 1000 characters is stored whole
C16_Witness ==
  /\ ret.op = "log"
  /\ ret.arg.script = Text(1500)
  /\ ret.arg.result = Text(1001)
  /\ Len(sheet.rows) >= 3
  /\ sheet.rows[2] = ret.wrote[1]
  /\ TextLength(sheet.rows[2].script) = 1000
  /\ TextLength(sheet.rows[2].result) = 1000
  /\ sheet.rows[3].kind = "entry"
  /\ sheet.rows[3].script = Text(1000)

\* C17: after every completed Logger.log call of a sequential run the sheet
\* holds at most MAX_LOG_ENTRIES rows below the first row, and they are the
\* most recent rows written since the log was empty, newest first; so after
\* MAX_LOG_ENTRIES + 1 appends to an empty log exactly MAX_LOG_ENTRIES are
\* held, the oldest is the one removed and the others are all kept.
C17_LogHoldsTheMostRecentEntries ==
  LET h == logged[1]
      n == Len(h)
      k == IF n < MAX_LOG_ENTRIES THEN n ELSE MAX_LOG_ENTRIES
  IN  /\ Len(Entries(sheet.rows)) <= MAX_LOG_ENTRIES
      /\ Entries(sheet.rows) = [i \in 1..k |-> h[n - i + 1]]
      /\ n = MAX_LOG_ENTRIES + 1
           => /\ Len(Entries(sheet.rows)) = MAX_LOG_ENTRIES
              /\ Entries(sheet.rows)[MAX_LOG_ENTRIES] = h[2]

\* C17 witness: MAX_LOG_ENTRIES + 1 rows were written to the empty log, the
\* first of them unlike the others, and the sheet holds the others
C17_Witness ==
  /\ ret.op = "log"
  /\ Len(logged[1]) = MAX_LOG_ENTRIES + 1
  /\ sheet.rows[1] = Header
  /\ Len(sheet.rows) = MAX_LOG_ENTRIES + 1
  /\ \A i \in 2..Len(sheet.rows) : sheet.rows[i] # logged[1][1]
  /\ sheet.rows[2] = logged[1][MAX_LOG_ENTRIES + 1]

\* C18: the log is ordered newest first: after a sequential Logger.log call
\* that stored its entry, the entry is the first row below the header, the
\* first row is what it was (the header, written when the sheet was made),
\* and the rows that were stored before follow in the order they had.
C18_NewEntryIsFirstBelowHeader ==
  [][\A logEntry \in LogInputs :
       (CallLog(logEntry) /\ ret'.wrote # <<>>)
         => /\ sheet'.rows[2] = LogRow(logEntry, now)
            /\ sheet'.rows[2] = ret'.wrote[1]
            /\ ~sheet.exists => sheet'.rows[1] = Header
            /\ (sheet.exists /\ Len(sheet.rows) > 0) => sheet'.rows[1] = sheet.rows[1]
            /\ SubSeq(sheet'.rows, 3, Len(sheet'.rows))
                 = SubSeq(sheet.rows, 2, Len(sheet'.rows) - 1)
            /\ Len(sheet'.rows) >= Len(sheet.rows)]_vars

\* C18 witness: three unlike entries under the header, the one logged last
\* on top and the one logged first at the bottom
C18_Witness ==
  /\ ret.op = "log"
  /\ Len(logged[1]) = 3
  /\ sheet.rows = <<Header, logged[1][3], logged[1][2], logged[1][1]>>
  /\ ret.wrote = <<logged[1][3]>>
  /\ logged[1][1] # logged[1][2]
  /\ logged[1][2] # logged[1][3]
  /\ logged[1][1] # logged[1][3]

\* how many of the rows have the status
WithStatus(entries, status) ==
  Cardinality({i \in DOMAIN entries : entries[i].status = status})

\* C19: getStats returns total = the number of stored entries, success and
\* fail = the numbers of entries with status "success" and "fail", and
\* successRate = success/total as a percentage rounded to two decimals; on
\* an empty log it returns 0, 0, 0 and "0%", and on a log of 3 successes and
\* 1 failure it returns 4, 3, 1 and "75.00%".
C19_GetStatsCountsTheEntries ==
  ret.op = "getStats"
    => LET st == ret.stats
           entries == Entries(sheet.rows)
           hundredths == st.successRate[2] * 100 + st.successRate[3]
       IN  /\ st.total = Len(entries)
           /\ st.success = WithStatus(entries, STATUS_SUCCESS)
           /\ st.fail = WithStatus(entries, STATUS_FAIL)
           /\ Len(entries) = 0
                => st = [total |-> 0, success |-> 0, fail |-> 0, successRate |-> <<"0%">>]
           /\ Len(entries) > 0
                => /\ st.successRate[1] = "percent"
                   /\ st.successRate[3] \in 0..99
                   /\ 2 * (hundredths * st.total - st.success * 10000) <= st.total
                   /\ 2 * (st.success * 10000 - hundredths * st.total) <= st.total
           /\ (st.success = 3 /\ st.fail = 1)
                => (st.total = 4 /\ st.successRate = <<"percent", 75, 0>>)

\* C19 witness: getStats on a log of 3 successes and 1 failure
C19_Witness ==
  /\ ret.op = "getStats"
  /\ Len(sheet.rows) = 5
  /\ WithStatus(Entries(sheet.rows), STATUS_SUCCESS) = 3
  /\ WithStatus(Entries(sheet.rows), STATUS_FAIL) = 1
  /\ ret.stats = [total |-> 4, success |-> 3, fail |-> 1,
                  successRate |-> <<"percent", 75, 0>>]

\* C20: clearAll, called on a log in any reachable state, completes without
\* error and leaves exactly the header row, so that getStats then reports
\* total 0 and the next Logger.log stores its entry as the single row below
\* the header.
C20_ClearAllLeavesTheHeader ==
  /\ ret.op = "clearAll"
       => /\ ~ret.threw
          /\ sheet.rows = <<Header>>
          /\ getStats(sheet.rows).total = 0
  /\ (ret.op = "log" /\ Len(logged[1]) = 1 /\ ret.wrote # <<>>)
       => sheet.rows = <<Header, ret.wrote[1]>>

\* the usage count of the record of identifier k
UsageCount(k) == JsonParse(props[k]).usageCount

\* C21: a call updateUsage(id) on an identifier with a record adds exactly one
\* to usageCount and sets lastUsed to the time of the call, and leaves the
\* secret, the identifier, createdAt and every other record as they were; a
\* call on an identifier without a record changes nothing.  Hence a record
\* created with usageCount 0 holds, after n calls made one after another, the
\* usageCount n.  The steps that leave ret at an updateUsage call and do not
\* move the clock are the calls of updateUsage.
C21_UpdateUsageAddsOneAndKeepsTheRest ==
  /\ [][ret'.op = "updateUsage" /\ now' = now =>
          LET id == ret'.arg
          IN  /\ \A k \in Ids \ {id} : props'[k] = props[k]
              /\ props[id] = Null => props' = props
              /\ props[id] # Null =>
                   LET old == JsonParse(props[id])
                       new == JsonParse(props'[id])
                   IN  /\ new.usageCount = old.usageCount + 1
                       /\ new.lastUsed = IsoString(now)
                       /\ new.apiKey = old.apiKey
                       /\ new.identifier = old.identifier
                       /\ new.createdAt = old.createdAt
                       /\ DOMAIN new = DOMAIN old]_vars
  /\ [](\A k \in Ids : props[k] # Null => UsageCount(k) = calls[k])

\* two calls have counted on one record while the other record stayed
C21_Witness ==
  /\ ret.op = "updateUsage"
  /\ props[ret.arg] # Null
  /\ UsageCount(ret.arg) = 2
  /\ calls[ret.arg] = 2
  /\ JsonParse(props[ret.arg]).lastUsed = IsoString(1)
  /\ JsonParse(props[ret.arg]).createdAt = IsoString(0)
  /\ \E k \in Ids \ {ret.arg} : props[k] # Null /\ UsageCount(k) = 0

\* C22: the usageCount of every key record is a non-negative integer and
\* never decreases while the record lives, in every reachable state and
\* under any interleaving of concurrent requests that call updateUsage for
\* its identifier.
C22_UsageCountNeverDecreases ==
  /\ [](\A k \in Ids : props[k] # Null => UsageCount(k) \in Nat)
  /\ [][\A k \in Ids : props[k] # Null /\ props'[k] # Null =>
          UsageCount(k)' >= UsageCount(k)]_vars

\* both slots have finished updateUsage for the same identifier
BothUpdated(k) ==
  \A r \in Slots : /\ validation[r] # None
                   /\ validation[r].valid
                   /\ validation[r].identifier = k
                   /\ "updateUsage" \in Range(trace[r])

\* C23: updateUsage is a read-modify-write in two steps; however the calls
\* of concurrent requests interleave, usageCount never grows by more than
\* the number of updateUsage calls completed for the record.  (That two
\* concurrent requests with the same identifier can leave it grown by only
\* one is the state C23_Witness.)
C23_UsageCountAtMostCompletedCalls ==
  \A k \in Ids : props[k] # Null => UsageCount(k) <= calls[k]

\* an under-count: two requests of the same identifier, served at the same
\* time, have both completed updateUsage and usageCount went from 0 to 1
C23_Witness ==
  \E k \in Ids : /\ BothUpdated(k)
                 /\ served = 2
                 /\ calls[k] = 2
                 /\ UsageCount(k) = 1

\* what the caller of request r holds is one JSON envelope: the success
\* envelope with a result, or an error envelope with an error and a status
\* code
Envelope(r) ==
  /\ response[r] # Uncaught
  /\ "success" \in DOMAIN response[r]
  /\ \/ response[r].success /\ "result" \in DOMAIN response[r]
     \/ ~response[r].success /\ {"error", "statusCode"} \subseteq DOMAIN response[r]

\* C24: provided the script terminates, every invocation of doPost eventually
\* returns exactly one response, the complete success envelope or one
\* structured error envelope; no request is left without a response and none
\* yields two outcomes.
C24_EveryRequestIsAnswered ==
  /\ \A r \in Slots : (pc[r] = "parse") ~> (pc[r] = "done")
  /\ [](\A r \in Slots : pc[r] = "done" => Envelope(r))
  /\ [][\A r \in Slots : response[r] # None =>
          response'[r] \in {response[r], None}]_vars

\* C25: the function execute builds gives the script the bindings of its
\* context and nothing else: two executions of the same script with the
\* same context in different global states produce the same result.
C25_ResultIndependentOfGlobalState ==
  ret.op = "executePair" =>
    /\ ret.first.threw = ret.second.threw
    /\ ret.first.invoked = ret.second.invoked
    /\ ~ret.first.threw =>
         /\ ret.first.value.success = ret.second.value.success
         /\ ret.first.value.result = ret.second.value.result
         /\ ret.first.value.error = ret.second.value.error

\* the place of a call in Parse, Authenticate (validate, then updateUsage),
\* Execute, Log, Respond
StageRank(call) ==
  CASE call = "parseRequest" -> 1
    [] call = "validate" -> 2
    [] call = "updateUsage" -> 3
    [] call = "execute" -> 4
    [] call \in {"log", "logUnavailable"} -> 5
    [] call = "respond" -> 6

\* C26: within one request the stages occur in the order Parse, Authenticate
\* (validate, then updateUsage), Execute, Log, Respond; each stage runs at
\* most once and the script is invoked at most once; after a stage has
\* failed and the response is there no later stage runs: a parse failure
\* ends the request after parseRequest, a key that does not validate keeps
\* updateUsage and execute from running, and once the response exists no
\* further call is made.
C26_StagesRunInOrderAtMostOnce ==
  /\ [](\A r \in Slots :
          /\ \A i, j \in DOMAIN trace[r] :
               i < j => StageRank(trace[r][i]) < StageRank(trace[r][j])
          /\ invoked[r] <= 1
          /\ (invoked[r] = 1 => "execute" \in Range(trace[r]))
          /\ (response[r] # None => pc[r] = "done")
          /\ (pc[r] \notin {"idle", "parse"} /\ ~parseRequest(ev[r]).success
                => trace[r] = <<"parseRequest">>)
          /\ (validation[r] # None /\ ~validation[r].valid
                => Range(trace[r]) \cap {"updateUsage", "execute"} = {}))
  /\ [][\A r \in Slots : response[r] # None =>
          /\ trace'[r] \in {trace[r], <<>>}
          /\ invoked'[r] \in {invoked[r], 0}]_vars

\* a request went through every stage once, its script was invoked and failed
C26_Witness ==
  /\ trace[1] = <<"parseRequest", "validate", "updateUsage", "execute", "log", "respond">>
  /\ invoked[1] = 1
  /\ ~execution[1].success
  /\ response[1].statusCode = 400

\* how often request r has called updateUsage
UpdateUsageCalls(r) ==
  Cardinality({i \in DOMAIN trace[r] : trace[r][i] = "updateUsage"})

\* C27: updateUsage is called exactly once for every request whose key
\* validates, before the script is executed and whether the execution then
\* succeeds or fails; it is called zero times for every request that fails
\* parsing or authentication.
C27_UpdateUsageOncePerValidatedRequest ==
  \A r \in Slots :
    /\ UpdateUsageCalls(r) <= 1
    /\ (validation[r] # None /\ validation[r].valid /\ pc[r] # "updateUsage"
          => UpdateUsageCalls(r) = 1)
    /\ ("execute" \in Range(trace[r]) => CalledBefore(r, "updateUsage", "execute"))
    /\ (execution[r] # None => UpdateUsageCalls(r) = 1)
    /\ (pc[r] \notin {"idle", "parse"} /\ ~parseRequest(ev[r]).success
          => UpdateUsageCalls(r) = 0)
    /\ (validation[r] # None /\ ~validation[r].valid => UpdateUsageCalls(r) = 0)

\* a validated request whose script failed has counted once, and the count
\* is in the record when the request is answered
C27_Witness ==
  /\ pc[1] = "done"
  /\ validation[1] # None /\ validation[1].valid
  /\ execution[1] # None /\ ~execution[1].success
  /\ UpdateUsageCalls(1) = 1
  /\ UsageCount(validation[1].identifier) = 1

\* what the script given to execute throws: its own value, or the
\* SyntaxError of new Function
ThrownBy(script) ==
  IF script[2].out[1] = "syntax"
  THEN Err("SyntaxError", "SyntaxError", "Unexpected token")
  ELSE script[2].out[2]

\* the kind the classification names for a thrown value
KindOf(x) ==
  IF x[1] # "error" THEN "Error"
  ELSE IF x[2] = "SyntaxError" THEN "Syntax Error"
  ELSE IF x[2] = "ReferenceError" THEN "Reference Error"
  ELSE IF x[2] = "TypeError" THEN "Type Error"
  ELSE IF x[3] = "" THEN "Error"
  ELSE x[3]

\* C28: formatError maps each thrown failure to "<Kind>: <message>" by its
\* kind: a syntax error to Syntax Error, an undefined reference to Reference
\* Error, a type error to Type Error, any other error to its own name, or
\* Error when it has none; exactly one kind is chosen for every error.
C28_EveryThrownValueGetsItsKind ==
  (/\ ret.op = "execute"
   /\ validateScript(ret.arg) = Null
   /\ ret.arg[2].out[1] \in {"syntax", "throw"})
  => /\ ~ret.threw
     /\ ret.execution.error[2] = KindOf(ThrownBy(ret.arg))
     /\ (ThrownBy(ret.arg)[1] = "error"
           => ret.execution.error[3] = ThrownBy(ret.arg)[4])

\* C29: execute never lets a failure through to its caller: whatever a
\* script throws (an Error of any class, a string, null), execute returns
\* success=false with an executionTime, so that doPost writes the audit
\* entry and answers with statusCode 400 and the execution time.
C29_ThrowingScriptIsAnswered400 ==
  \A r \in Slots :
    (/\ pc[r] = "done"
     /\ "execute" \in Range(trace[r])
     /\ request[r].script[1] = "script"
     /\ validateScript(request[r].script) = Null
     /\ request[r].script[2].out[1] = "throw")
    => /\ execution[r] # None
       /\ ~execution[r].success
       /\ response[r].statusCode = 400
       /\ response[r].executionTime = execution[r].executionTime
       /\ Range(trace[r]) \cap {"log", "logUnavailable"} # {}
       /\ ("log" \in Range(trace[r]) => Len(logged[r]) = 1)

LogFailed(r) ==
  \/ "logUnavailable" \in Range(trace[r])
  \/ "log" \in Range(trace[r]) /\ logged[r] = <<>>

\* C31: a failure inside Logger.log is swallowed: the response of the request
\* is the one its authentication and its execution determine (401 for a key
\* that does not validate, 400 with the execution time for a failed
\* execution, the success envelope for a result that has a JSON text), the
\* failure never turns it into a 500 (a 500 after a failed log comes from
\* ResponseBuilder.success alone, for a result without JSON text), and the
\* call of log leaves the key store as it was.
C31_LogFailureIsSwallowed ==
  /\ [](\A r \in Slots :
          (pc[r] = "done" /\ LogFailed(r)) =>
            /\ trace[r][Len(trace[r])] = "respond"
            /\ (~validation[r].valid => response[r].statusCode = 401)
            /\ (validation[r].valid /\ ~execution[r].success
                  => /\ response[r].statusCode = 400
                     /\ response[r].executionTime = execution[r].executionTime)
            /\ (validation[r].valid /\ execution[r].success
                  /\ Serializable(execution[r].result)
                  => response[r].success /\ response[r].result = execution[r].result)
            /\ (~response[r].success /\ response[r].statusCode = 500
                  => /\ validation[r].valid
                     /\ execution[r].success
                     /\ ~Serializable(execution[r].result)))
  /\ [][\A r \in Slots :
          (Len(trace'[r]) = Len(trace[r]) + 1
             /\ trace'[r][Len(trace'[r])] \in {"log", "logUnavailable"})
          => props' = props]_vars

\* the spreadsheet was out of reach for a request whose script failed; the
\* answer is the 400 of the failed execution and the key has counted
C31_Witness ==
  /\ pc[1] = "done"
  /\ "logUnavailable" \in Range(trace[1])
  /\ validation[1].valid
  /\ ~execution[1].success
  /\ response[1].statusCode = 400
  /\ UsageCount(validation[1].identifier) = 1

\* C32: requests served at the same time with the keys of different
\* identifiers do not interfere in the key store: under every interleaving
\* the usageCount of each identifier has grown by the number of updateUsage
\* calls completed by the requests authenticated with that identifier, and
\* a record changes only in the step of a request authenticated with its
\* identifier.
C32_DifferentIdentifiersDoNotInterfere ==
  /\ [](\A k \in Ids : UsageCount(k) = calls[k])
  /\ [][\A k \in Ids : props'[k] # props[k] =>
          \E r \in Slots : /\ pc[r] = "setProperty"
                           /\ pc'[r] = "execute"
                           /\ validation[r].identifier = k]_vars

\* two requests with the keys of alice and of bob were between getProperty
\* and setProperty at the same time, and both counts are there
C32_Witness ==
  /\ \A r \in Slots : pc[r] = "execute"
  /\ validation[1].identifier # validation[2].identifier
  /\ \A r \in Slots : keyData[r] # Undefined
                      /\ JsonParse(keyData[r]).usageCount = 0
  /\ \A k \in Ids : UsageCount(k) = 1 /\ calls[k] = 1

\* the secret each identifier holds when the requests begin
FirstSecret(k) == IF k = Str("alice") THEN Uuid(1) ELSE Uuid(2)

\* C33: revocation is durable: once delete(id) has returned true and no
\* create(id) follows, no record of id exists and validate of the deleted
\* secret returns valid=false in every later state, also when a request that
\* validated the key before the delete performs its updateUsage afterwards.
C33_DeletedKeyStaysDeleted ==
  \A k \in Ids :
    issued[k] = Null =>
      /\ props[k] = Null
      /\ \A v \in validate(props, FirstSecret(k)) : ~v.valid

\* caller r has got a secret from create
Created(r) == pc[r] = "returned" /\ ~response[r].threw

\* C34: under any interleaving of concurrent create(id) calls for the same
\* identifier at most one call succeeds, and every secret a successful
\* create returned validates to id as long as the record is not deleted.
C34_ConcurrentCreateSucceedsOnce ==
  /\ \A r, q \in Slots :
       (r # q /\ Created(r) /\ Created(q)) => ev[r].identifier # ev[q].identifier
  /\ \A r \in Slots :
       Created(r) =>
         validate(props, response[r].value) =
           {[valid |-> TRUE, identifier |-> ev[r].identifier]}

\* C35: under any interleaving of two concurrent Logger.log calls (an empty
\* row inserted at position 2, row 2 written, the log trimmed) both entries
\* end up stored as rows of their own and no blank row remains: when no
\* call is under way the log holds one entry for every call made, up to the
\* cap, and no blank row.
C35_ConcurrentLogsStoreBothEntries ==
  (\A r \in Slots : pc[r] = "idle") =>
    /\ \A i \in DOMAIN sheet.rows : sheet.rows[i] # Blank
    /\ Len(Entries(sheet.rows)) =
         (IF served < MAX_LOG_ENTRIES THEN served ELSE MAX_LOG_ENTRIES)

\* C36: in every state reachable through Logger.log and clearAll the
\* statistics are consistent: getStats().total equals getStats().success
\* plus getStats().fail, and every stored entry has the status "success" or
\* "fail".  Stated for the states in which no call of log is under way.
C36_StatsAddUp ==
  (\A r \in Slots : pc[r] = "idle") =>
    /\ getStats(sheet.rows).total
         = getStats(sheet.rows).success + getStats(sheet.rows).fail
    /\ \A i \in 2..Len(sheet.rows) :
         sheet.rows[i] # Blank
           => sheet.rows[i].status \in {STATUS_SUCCESS, STATUS_FAIL}


(***************************************************************************)
(* ApiKeyManager.getAll: one listing entry for every property whose text   *)
(* parses; the map's catch returns null for a text that does not parse and *)
(* the filter drops the nulls.  new Date(text) turns the ISO text into a   *)
(* date.  The listing is in the order getKeys gives, which the platform    *)
(* does not fix, so it is modelled by the set of its entries.              *)
(***************************************************************************)
NewDate(text) == <<"date", text[2]>>

\* the map without its catch's null: a text that does not parse is listed
\* with no fields (a fault)
getAllListsUnparsed(store) ==
  {IF JsonParses(store[k])
   THEN LET value == JsonParse(store[k])
        IN  [apiKey |-> value.apiKey, identifier |-> value.identifier,
             createdAt |-> NewDate(value.createdAt),
             lastUsed |-> IF Falsy(value.lastUsed) THEN Null
                          ELSE NewDate(value.lastUsed),
             usageCount |-> value.usageCount]
   ELSE [apiKey |-> Undefined, identifier |-> Undefined, createdAt |-> Undefined,
         lastUsed |-> Null, usageCount |-> 0] : k \in getKeys(store)}

getAll(store) ==
  {LET value == JsonParse(store[k])
   IN  [apiKey |-> value.apiKey, identifier |-> value.identifier,
        createdAt |-> NewDate(value.createdAt),
        lastUsed |-> IF Falsy(value.lastUsed) THEN Null
                     ELSE NewDate(value.lastUsed),
        usageCount |-> value.usageCount] :
   k \in {q \in getKeys(store) : JsonParses(store[q])}}

(***************************************************************************)
(* The key store beside a property that is not a key record: the script    *)
(* properties are the project's one property store, and a property written *)
(* from the project settings or by other code is a text that JSON.parse    *)
(* rejects.                                                                *)
(***************************************************************************)
NotJson == Str("retired")

\* a property that is no JSON text is stored under a name that has no record
StoreForeignProperty(k) ==
  /\ props[k] = Null
  /\ props' = [props EXCEPT ![k] = NotJson]
  /\ ret' = [op |-> "setProperty", arg |-> k]
  /\ UNCHANGED <<nextUuid, issued, calls, now, sheet, served, reqVars>>

CallGetAll ==
  /\ ret' = [op |-> "getAll", listing |-> getAll(props)]
  /\ UNCHANGED <<props, nextUuid, issued, calls, now, sheet, served, reqVars>>

NextForeign ==
  \/ \E identifier \in CreateInputs : CallCreate(identifier)
  \/ \E identifier \in Ids : CallDelete(identifier)
  \/ \E apiKey \in KeyInputs : CallValidate(apiKey)
  \/ \E k \in Ids : StoreForeignProperty(k)
  \/ CallGetAll
  \/ Tick

SpecForeign == Init /\ [][NextForeign]_vars

\* the names whose property is a key record, and the store without the others
WellFormed(store) == {k \in getKeys(store) : JsonParses(store[k])}
WithoutUnparsed(store) ==
  [k \in DOMAIN store |-> IF k \in WellFormed(store) THEN store[k] ELSE Null]

\* C37: a property that is no JSON text validates no secret and does not stop
\* the validation of the key records beside it: every result of validate, in
\* every scan order, is the result the store gives without that property, the
\* secret of every well-formed record validates to its identifier, and getAll
\* lists the well-formed records only.
C37_UnparsedEntryIsSkipped ==
  /\ \A s \in KeyInputs : validate(props, s) = validate(WithoutUnparsed(props), s)
  /\ \A k \in WellFormed(props) :
       validate(props, JsonParse(props[k]).apiKey)
         = {[valid |-> TRUE, identifier |-> JsonParse(props[k]).identifier]}
  /\ getAll(props) = getAll(WithoutUnparsed(props))
  /\ Cardinality(getAll(props)) = Cardinality(WellFormed(props))
  /\ \A entry \in getAll(props) :
       \E k \in WellFormed(props) : entry.apiKey = JsonParse(props[k]).apiKey
  /\ ret.op = "getAll" => ret.listing = getAll(WithoutUnparsed(props))
  /\ ret.op = "validate" => ret.validation \in validate(WithoutUnparsed(props), ret.arg)

\* C37 witness: bob's name holds a text that is no JSON, alice has a record,
\* and validate has just accepted alice's secret
C37_Witness ==
  /\ props[Str("bob")] = NotJson
  /\ props[Str("alice")] # Null
  /\ ret.op = "validate"
  /\ ret.arg = issued[Str("alice")]
  /\ ret.validation = [valid |-> TRUE, identifier |-> Str("alice")]

\* C37, the listing: the same store, and getAll has just listed alice's record
\* alone
C37_ListingReached ==
  /\ props[Str("bob")] = NotJson
  /\ props[Str("alice")] # Null
  /\ ret.op = "getAll"
  /\ Cardinality(ret.listing) = 1


(***************************************************************************)
(* The menu's prompt takes any text as identifier: create refuses only an  *)
(* empty or non-string one, so a key can be made for the identifier that   *)
(* doPost writes for an unauthorized request.                              *)
(***************************************************************************)
Names == {Str("alice"), Str("Unknown")}

InitNamed ==
  /\ props = [k \in Names |-> Null]
  /\ nextUuid = 1
  /\ now = 0
  /\ ret = [op |-> "none"]
  /\ issued = [k \in Ids |-> Null]
  /\ sheet = NoSheet
  /\ served = 0
  /\ pc = [r \in Slots |-> "idle"]
  /\ ev = [r \in Slots |-> None]
  /\ request = [r \in Slots |-> None]
  /\ validation = [r \in Slots |-> None]
  /\ execution = [r \in Slots |-> None]
  /\ response = [r \in Slots |-> None]
  /\ invoked = [r \in Slots |-> 0]
  /\ logged = [r \in Slots |-> <<>>]
  /\ trace = [r \in Slots |-> <<>>]
  /\ keyData = [r \in Slots |-> Undefined]
  /\ calls = [k \in Names |-> 0]

NextNamed ==
  \/ \E identifier \in Names : showCreateApiKeyDialog(identifier)
  \/ \E identifier \in Names : showDeleteApiKeyDialog(identifier)
  \/ ArriveAlone(1)
  \/ \E r \in Slots : doPost(r)

SpecNamed == InitNamed /\ [][NextNamed]_vars

\* a record with this identifier is stored
Recorded(store, identifier) ==
  \E k \in getKeys(store) :
    JsonParses(store[k]) /\ JsonParse(store[k]).identifier = identifier

\* C38: no audit entry with status "success" has the identifier doPost writes
\* for an unauthorized request, the identifier validate returns with valid=true
\* is the one of a stored record, and the entry written for an executed request
\* has that identifier.
C38_SuccessEntriesNameAKey ==
  /\ [](\A i \in DOMAIN sheet.rows :
          (sheet.rows[i].kind = "entry" /\ sheet.rows[i].status = STATUS_SUCCESS)
            => sheet.rows[i].identifier # Str("Unknown"))
  /\ [][\A r \in Slots :
          (pc[r] = "validate" /\ pc'[r] # "validate" /\ validation'[r].valid)
            => Recorded(props, validation'[r].identifier)]_vars
  /\ [][\A r \in Slots :
          (pc[r] = "log" /\ pc'[r] # "log")
            => \A i \in DOMAIN logged'[r] :
                 logged'[r][i].identifier = validation[r].identifier]_vars

====
